---------------------------- MODULE Spec2Model ----------------------------
(***************************************************************************)
(* Model of the privacy-budget scheduler (privacypacking).                 *)
(*                                                                         *)
(* RDP epsilons are floats in the program; here they are integers in a     *)
(* fixed unit, and the RDP orders are the integer orders 2, 3, 5 of the    *)
(* program's ALPHAS list, so that ln(delta) / (alpha - 1) is exact.        *)
(* A Budget is a function from its support (a set of orders) to epsilons.  *)
(***************************************************************************)
EXTENDS Integers, Sequences, FiniteSets, TLC

VARIABLES
    \* ---- scheduler state
    blocks,            \* block id -> Block
    pending,           \* the pending queue: sequence of Tasks, insertion order
    allocation,        \* the allocation record: sequence of allocated Tasks
    allocated_count,   \* number of allocated tasks
    realized_profit,   \* sum of the profits of the allocated tasks
    n_dropped,         \* tasks dropped at submission (counted)
    task_count,        \* task ids handed out so far
    pc,                \* "idle", or "round" while a scheduling round runs
    order,             \* the round's metric-sorted task ids still to consider
    last,              \* the last operation; of an add_task, its inputs and outcome
    metric,            \* the name of the scheduler's metric
    \* ---- a call of a pure function: its name, arguments and result
    fn_op,
    fn_args,
    fn_ret,
    \* ---- Budget objects: their attributes, and the history of dp_budget
    objs,              \* object -> [orders, dp_budget_cached (<<>> when not set)]
    n_conversions,     \* object -> number of RDP-to-DP conversions computed
    first_dp,          \* object -> what its first dp_budget call returned
    n_samples,         \* number of samples drawn for the Task under observation
    \* ---- the resource manager and its simulation environment
    now,               \* env.now, the virtual clock
    cfg,               \* the configuration: method, blocks.initial_num, ...
    chan,              \* new_blocks_queue and new_tasks_queue (FIFO stores)
    events,            \* one-shot event -> the time it was triggered, -1 before
    proc,              \* process -> its position (and wake-up time when asleep)
    actor,             \* the process that took the last step
    term,              \* what the call of terminate_simulation did
    hist               \* history: the queue at the start of the last round, ...

schedVars == <<blocks, pending, allocation, allocated_count, realized_profit,
               n_dropped, task_count, pc, order, last, metric>>
fnVars == <<fn_op, fn_args, fn_ret>>
objVars == <<objs, n_conversions, first_dp, n_samples>>
rmVars == <<now, cfg, chan, events, proc, actor, term, hist>>
vars == <<blocks, pending, allocation, allocated_count, realized_profit,
          n_dropped, task_count, pc, order, last, metric, fn_op, fn_args, fn_ret,
          objs, n_conversions, first_dp, n_samples,
          now, cfg, chan, events, proc, actor, term, hist>>

---------------------------------------------------------------------------
(* Bounds of the model *)

MaxBlocks == 2
MaxTasks == 2
EpsMax == 2
MaxSel == 4

---------------------------------------------------------------------------
(* Generic helpers *)

Range(s) == {s[i] : i \in 1..Len(s)}

SetMax(S) == CHOOSE x \in S : \A y \in S : y <= x

Min2(x, y) == IF x <= y THEN x ELSE y

Max2(x, y) == IF x >= y THEN x ELSE y

---------------------------------------------------------------------------
(* Budget algebra: budget.py *)

\* The orders of the model, taken from the program's default list.
ALPHAS == {2, 3, 5}

\* ln(delta), in the model's unit: a negative multiple of every alpha - 1.
LogDelta == 0 - 4

\* The epsilon of the (epsilon, delta)-DP guarantee of a block.
BlockEpsilon == 3

\* Budget(orders): the orders as given (the dict is only re-ordered).
Budget(orders) == [alpha \in DOMAIN orders |-> orders[alpha]]

Alphas(b) == DOMAIN b

Epsilons(b) == {b[alpha] : alpha \in DOMAIN b}

\* The mutant: the curve is not clamped at 0.
FromEpsilonDeltaNoClamp(epsilon, logdelta, alpha_list) ==
    Budget([alpha \in alpha_list |-> epsilon + (logdelta \div (alpha - 1))])

FromEpsilonDelta(epsilon, logdelta, alpha_list) ==
    Budget([alpha \in alpha_list |->
                Max2(epsilon + (logdelta \div (alpha - 1)), 0)])

\* The mutant: a strict test.
IsPositiveAllAlphasStrict(b) == \A alpha \in DOMAIN b : ~(b[alpha] <= 0)

IsPositiveAllAlphas(b) == \A alpha \in DOMAIN b : ~(b[alpha] < 0)

IsPositive(b) == \E alpha \in DOMAIN b : b[alpha] >= 0

SameSupport(budget1, budget2) ==
    LET shared_alphas == DOMAIN budget1 \cap DOMAIN budget2
    IN  << Budget([alpha \in shared_alphas |-> budget1[alpha]]),
           Budget([alpha \in shared_alphas |-> budget2[alpha]]) >>

\* The mutant: the operands swapped.
BudgetSubSwapped(self, other) ==
    LET ab == SameSupport(self, other)
    IN  Budget([alpha \in DOMAIN ab[1] |-> ab[2][alpha] - ab[1][alpha]])

BudgetSub(self, other) ==
    LET ab == SameSupport(self, other)
    IN  Budget([alpha \in DOMAIN ab[1] |-> ab[1][alpha] - ab[2][alpha]])

BudgetAdd(self, other) ==
    LET ab == SameSupport(self, other)
    IN  Budget([alpha \in DOMAIN ab[1] |-> ab[1][alpha] + ab[2][alpha]])

BudgetMul(self, n) == Budget([alpha \in DOMAIN self |-> self[alpha] * n])

Positive(b) == Budget([alpha \in DOMAIN b |-> Max2(b[alpha], 0)])

\* The mutant: the demand is not subtracted before the test.
CanAllocateNoDiff(self, demand_budget) ==
    IF ~IsPositiveAllAlphas(demand_budget) THEN "AssertionError"
    ELSE LET diff == SameSupport(self, demand_budget)[1]
         IN  IF DOMAIN diff = {} THEN "ValueError"
             ELSE LET max_order == SetMax(Epsilons(diff))
                  IN  IF max_order >= 0 THEN "True" ELSE "False"

\* The mutant: every order has to survive, not one.
CanAllocateAllOrders(self, demand_budget) ==
    IF ~IsPositiveAllAlphas(demand_budget) THEN "AssertionError"
    ELSE LET diff == BudgetSub(self, demand_budget)
         IN  IF DOMAIN diff = {} THEN "ValueError"
             ELSE IF \A alpha \in DOMAIN diff : diff[alpha] >= 0
                  THEN "True" ELSE "False"

\* can_allocate: "True" / "False", or the exception it raises: the assertion
\* on the demand, or max() of an empty list when no order is shared.
CanAllocate(self, demand_budget) ==
    IF ~IsPositiveAllAlphas(demand_budget) THEN "AssertionError"
    ELSE LET diff == BudgetSub(self, demand_budget)
         IN  IF DOMAIN diff = {} THEN "ValueError"
             ELSE LET max_order == SetMax(Epsilons(diff))
                  IN  IF max_order >= 0 THEN "True" ELSE "False"

ZeroCurve == Budget([alpha \in ALPHAS |-> 0])

SetMin(S) == CHOOSE x \in S : \A y \in S : x <= y

\* What a call gives: the value it returns, or the exception it raises.
Value(v) == [err |-> "none", value |-> v]

Throw(exception) == [err |-> exception]

\* __truediv__: each epsilon over n, kept as the fraction <<epsilon, n>>.
BudgetTrueDiv(self, n) == [alpha \in DOMAIN self |-> <<self[alpha], n>>]

\* normalize_by: over the common support, the orders whose divisor is
\* positive; a quotient is kept as the fraction <<a, b>>.
NormalizeBy(self, other) ==
    LET ab == SameSupport(self, other)
    IN  [alpha \in {x \in DOMAIN ab[1] : ab[2][x] > 0} |->
            <<ab[1][alpha], ab[2][alpha]>>]

\* add_with_threshold: for every order of self, the epsilon of other and of
\* threshold at that order is read (Budget.epsilon is a dict lookup, which
\* raises KeyError at an order the operand does not have).
AddWithThreshold(self, other, threshold) ==
    IF \E alpha \in DOMAIN self :
            alpha \notin DOMAIN other \/ alpha \notin DOMAIN threshold
    THEN Throw("KeyError")
    ELSE Value(Budget([alpha \in DOMAIN self |->
                          Min2(self[alpha] + other[alpha], threshold[alpha])]))

\* __eq__: the orders of self, in ascending order; at each one the epsilon
\* of other is read (KeyError when other lacks it), and the first difference
\* returns False.
BudgetEq(self, other) ==
    LET odd == {alpha \in DOMAIN self :
                    alpha \notin DOMAIN other \/ other[alpha] # self[alpha]}
    IN  IF odd = {} THEN Value(TRUE)
        ELSE IF SetMin(odd) \notin DOMAIN other THEN Throw("KeyError")
        ELSE Value(FALSE)

\* ln of DELTA_MNIST and of DELTA_IMAGENET, in the model's unit.
LogDeltas == {0 - 4, 0 - 8}

\* get_privacy_spent(orders, rdp, delta): the order that minimises
\* epsilon(alpha) - ln(delta) / (alpha - 1) (the first one of the list when
\* several do), and that epsilon, not below 0.
GetPrivacySpent(orders, logdelta) ==
    LET eps == [alpha \in DOMAIN orders |-> orders[alpha] - (logdelta \div (alpha - 1))]
        best_alpha == SetMin({alpha \in DOMAIN eps : \A x \in DOMAIN eps : eps[alpha] <= eps[x]})
    IN  <<Max2(eps[best_alpha], 0), best_alpha>>

\* A Budget object: its orders and, once dp_budget has run, the attribute
\* dp_budget_cached (<<>> stands for the attribute not being set).
NewBudget(orders) == [orders |-> Budget(orders), dp_budget_cached |-> <<>>]

\* The mutant: the conversion is computed at every call, nothing is cached.
DpBudgetNoCache(obj, logdelta) ==
    LET r == GetPrivacySpent(obj.orders, logdelta)
        triple == [epsilon |-> r[1], delta |-> logdelta, best_alpha |-> r[2]]
    IN  [ret |-> Value(triple), obj |-> obj, computed |-> 1]

\* The mutant: the cache is written at every call.
DpBudgetOverwrite(obj, logdelta) ==
    LET r == GetPrivacySpent(obj.orders, logdelta)
        triple == [epsilon |-> r[1], delta |-> logdelta, best_alpha |-> r[2]]
    IN  [ret |-> IF obj.dp_budget_cached # <<>>
                 THEN Value(obj.dp_budget_cached[1]) ELSE Value(triple),
         obj |-> [obj EXCEPT !.dp_budget_cached = <<triple>>],
         computed |-> IF obj.dp_budget_cached # <<>> THEN 0 ELSE 1]

\* dp_budget(delta): what it returns, the object after the call, and the
\* number of conversions it computed.  The cached triple is returned when
\* the object has one, whatever delta is; otherwise the conversion is
\* computed and stored on the object.
DpBudget(obj, logdelta) ==
    IF obj.dp_budget_cached # <<>>
    THEN [ret |-> Value(obj.dp_budget_cached[1]), obj |-> obj, computed |-> 0]
    ELSE LET r == GetPrivacySpent(obj.orders, logdelta)
             triple == [epsilon |-> r[1], delta |-> logdelta, best_alpha |-> r[2]]
         IN  [ret |-> Value(triple),
              obj |-> [obj EXCEPT !.dp_budget_cached = <<triple>>],
              computed |-> 1]

---------------------------------------------------------------------------
(* Block-selection policies: block_selection.py.  A policy's result is the  *)
(* set of the outcomes its random draws can produce; an outcome is the list *)
(* of selected block indices, or the exception raised.                      *)

Ok(selected) == [err |-> "none", blocks |-> selected]

Raise(exception) == [err |-> exception, blocks |-> <<>>]

\* range(a, b) as a list
PyRange(a, b) == [i \in 1..Max2(b - a, 0) |-> a + i - 1]

Reversed(s) == [i \in 1..Len(s) |-> s[Len(s) + 1 - i]]

\* random.sample(population, k): every list of k distinct elements of the
\* population; ValueError when the sample is larger than the population.
RandomSample(population, k) ==
    IF k > Len(population) \/ k < 0 THEN {Raise("ValueError")}
    ELSE {Ok([i \in 1..k |-> population[idx[i]]]) :
            idx \in {f \in [1..k -> 1..Len(population)] :
                        \A i, j \in 1..k : i # j => f[i] # f[j]}}

RandomBlocks(n_blocks, task_blocks_num) ==
    LET blocks_num == PyRange(0, n_blocks)
    IN  IF task_blocks_num > n_blocks THEN {Raise("NotEnoughBlocks")}
        ELSE RandomSample(blocks_num, task_blocks_num)

\* The mutant: the range is not reversed.
LatestBlocksFirstAscending(n_blocks, task_blocks_num) ==
    IF task_blocks_num > n_blocks THEN {Raise("NotEnoughBlocks")}
    ELSE {Ok(PyRange(n_blocks - task_blocks_num, n_blocks))}

\* The mutant: no test of the number of blocks.
LatestBlocksFirstUnchecked(n_blocks, task_blocks_num) ==
    {Ok(Reversed(PyRange(n_blocks - task_blocks_num, n_blocks)))}

LatestBlocksFirst(n_blocks, task_blocks_num) ==
    IF task_blocks_num > n_blocks THEN {Raise("NotEnoughBlocks")}
    ELSE {Ok(Reversed(PyRange(n_blocks - task_blocks_num, n_blocks)))}

IsEven(i) == i % 2 = 0

IsOdd(i) == i % 2 # 0

\* The mutant: the rest is drawn from all the blocks, not from the odd ones.
BiasedRandomBlocksFromAll(n_blocks, task_blocks_num) ==
    LET blocks_num == PyRange(0, n_blocks)
        even_block_ids == SelectSeq(blocks_num, IsEven)
        diff == task_blocks_num - Len(even_block_ids)
        biased ==
            IF diff > 0
            THEN {IF r.err = "none" THEN Ok(even_block_ids \o r.blocks) ELSE r :
                    r \in RandomSample(blocks_num, diff)}
            ELSE RandomSample(even_block_ids, task_blocks_num)
    IN  IF task_blocks_num > n_blocks THEN {Raise("NotEnoughBlocks")}
        ELSE biased \cup RandomSample(blocks_num, task_blocks_num)

\* selection = 0 (p = 0.7): the biased branch; selection = 1: the uniform one.
BiasedRandomBlocks(n_blocks, task_blocks_num) ==
    LET blocks_num == PyRange(0, n_blocks)
        even_block_ids == SelectSeq(blocks_num, IsEven)
        odd_block_ids == SelectSeq(blocks_num, IsOdd)
        diff == task_blocks_num - Len(even_block_ids)
        biased ==
            IF diff > 0
            THEN {IF r.err = "none" THEN Ok(even_block_ids \o r.blocks) ELSE r :
                    r \in RandomSample(odd_block_ids, diff)}
            ELSE RandomSample(even_block_ids, task_blocks_num)
        unbiased == RandomSample(blocks_num, task_blocks_num)
    IN  IF task_blocks_num > n_blocks THEN {Raise("NotEnoughBlocks")}
        ELSE biased \cup unbiased

\* random.randint(0, n_blocks - task_blocks_num) is inclusive on both sides.
ContiguousBlocksRandomOffset(n_blocks, task_blocks_num) ==
    IF task_blocks_num > n_blocks THEN {Raise("NotEnoughBlocks")}
    ELSE {Ok(PyRange(offset, offset + task_blocks_num)) :
            offset \in 0..(n_blocks - task_blocks_num)}

\* 1 / density[k] of Zeta: (k + 1) ** s, for an integer s >= 0.
RECURSIVE Power(_, _)
Power(x, s) == IF s = 0 THEN 1 ELSE x * Power(x, s - 1)

\* np.random.choice(n, size, replace=False, p): every list of `size` distinct
\* indices of non-zero probability; ValueError when there are too few.
Zeta(s, n_blocks, task_blocks_num) ==
    LET inv_density == [k \in 1..n_blocks |-> Power(k, s)]
        support == SelectSeq(PyRange(0, n_blocks),
                             LAMBDA k : inv_density[k + 1] > 0)
    IN  IF task_blocks_num > n_blocks THEN {Raise("NotEnoughBlocks")}
        ELSE RandomSample(support, task_blocks_num)

\* The policies of the model: BlockSelectionPolicy.from_str.
Policies ==
    {[name |-> nm, s |-> 0] :
        nm \in {"RandomBlocks", "LatestBlocksFirst", "BiasedRandomBlocks",
                "ContiguousBlocksRandomOffset"}}
    \cup {[name |-> "Zeta", s |-> s] : s \in {0, 1, 2}}

SelectBlocks(policy, n_blocks, task_blocks_num) ==
    CASE policy.name = "RandomBlocks" ->
            RandomBlocks(n_blocks, task_blocks_num)
      [] policy.name = "LatestBlocksFirst" ->
            LatestBlocksFirst(n_blocks, task_blocks_num)
      [] policy.name = "BiasedRandomBlocks" ->
            BiasedRandomBlocks(n_blocks, task_blocks_num)
      [] policy.name = "ContiguousBlocksRandomOffset" ->
            ContiguousBlocksRandomOffset(n_blocks, task_blocks_num)
      [] policy.name = "Zeta" ->
            Zeta(policy.s, n_blocks, task_blocks_num)

\* UniformTask.set_budget_per_block: the keys of budget_per_block, in the
\* order of their insertion (a key met again keeps its place).
RECURSIVE DictKeys(_)
DictKeys(block_ids) ==
    IF block_ids = <<>> THEN <<>>
    ELSE LET front == DictKeys(SubSeq(block_ids, 1, Len(block_ids) - 1))
             x == block_ids[Len(block_ids)]
         IN  IF x \in Range(front) THEN front ELSE Append(front, x)

---------------------------------------------------------------------------
(* Blocks and tasks *)

\* The number of unlocking steps of a block (scheduler.n), scaled down.
UnlockN == 2

\* Config.create_block: Block.from_epsilon_delta(block_id, epsilon, delta,
\* alpha_list).  A block starts with its whole capacity remaining, nothing
\* unlocked and no allocated task.
CreateBlock(block_id) ==
    LET capacity == FromEpsilonDelta(BlockEpsilon, LogDelta, ALPHAS)
    IN  [id |-> block_id,
         initial_budget |-> capacity,
         budget |-> capacity,
         available_unlocked_budget |-> ZeroCurve,
         unlock_steps |-> 0,
         n_allocated_tasks |-> 0]

\* Block.can_allocate: the predicate of the budget algebra on what remains.
BlockCanAllocate(block, demand) == CanAllocate(block.budget, demand) = "True"

\* Block.allocate: debit the remaining budget.
BlockAllocate(block, demand) ==
    [block EXCEPT !.budget = BudgetSub(block.budget, demand),
                  !.n_allocated_tasks = @ + 1]

\* The mutant: a step unlocks initial * fraction, whatever remains.
BlockUnlockNoRemaining(block) ==
    LET steps == Min2(block.unlock_steps + 1, UnlockN)
    IN  [block EXCEPT
            !.unlock_steps = steps,
            !.available_unlocked_budget =
                [alpha \in DOMAIN block.initial_budget |->
                    Max2(@[alpha], (block.initial_budget[alpha] * steps) \div UnlockN)]]

\* The mutant: what a step unlocks is taken off the remaining budget.
BlockUnlockDebits(block) ==
    LET steps == Min2(block.unlock_steps + 1, UnlockN)
        cap == [alpha \in DOMAIN block.initial_budget |->
                    Min2(block.budget[alpha],
                         (block.initial_budget[alpha] * steps) \div UnlockN)]
    IN  [block EXCEPT
            !.unlock_steps = steps,
            !.budget = [alpha \in DOMAIN cap |-> @[alpha] - Max2(cap[alpha], 0)],
            !.available_unlocked_budget =
                [alpha \in DOMAIN cap |-> Max2(@[alpha], cap[alpha])]]

\* The mutant: a step sets the unlocked budget to its cap, also downwards.
BlockUnlockToCap(block) ==
    LET steps == Min2(block.unlock_steps + 1, UnlockN)
    IN  [block EXCEPT
            !.unlock_steps = steps,
            !.available_unlocked_budget =
                [alpha \in DOMAIN block.initial_budget |->
                    Min2(block.budget[alpha],
                         (block.initial_budget[alpha] * steps) \div UnlockN)]]

\* Block.unlock, one step of the schedule: the unlocked fraction becomes
\* steps / n; each order is raised to min(remaining, initial * fraction)
\* when that is more than what is unlocked already.
BlockUnlock(block) ==
    LET steps == Min2(block.unlock_steps + 1, UnlockN)
        cap == [alpha \in DOMAIN block.initial_budget |->
                    Min2(block.budget[alpha],
                         (block.initial_budget[alpha] * steps) \div UnlockN)]
    IN  [block EXCEPT
            !.unlock_steps = steps,
            !.available_unlocked_budget =
                [alpha \in DOMAIN cap |-> Max2(@[alpha], cap[alpha])]]

\* Task / UniformTask: the demand is the same Budget on every block.
CreateTask(task_id, profit, n_blocks, demand) ==
    [id |-> task_id, profit |-> profit, n_blocks |-> n_blocks,
     budget |-> demand, block_ids |-> <<>>]

\* Task.get_budget: the demand on a block, ZeroCurve when not demanded.
GetBudget(task, block_id) ==
    IF block_id \in Range(task.block_ids) THEN task.budget ELSE ZeroCurve

---------------------------------------------------------------------------
(* Metrics: metrics.py.  A rank is a fraction <<numerator, denominator>>.  *)

\* Fcfs.apply: 1 / (task.id + 1)
Fcfs(task) == <<1, task.id + 1>>

\* The product of the positive capacities of a block: the denominator all
\* the shares demand / capacity are brought to.
CapProduct ==
    LET capacity == FromEpsilonDelta(BlockEpsilon, LogDelta, ALPHAS)
    IN  Max2(capacity[2], 1) * Max2(capacity[3], 1) * Max2(capacity[5], 1)

RECURSIVE SumOver(_, _)
SumOver(S, f) ==
    IF S = {} THEN 0
    ELSE LET x == CHOOSE y \in S : TRUE IN f[x] + SumOver(S \ {x}, f)

\* FlatRelevance.apply: profit / cost, where cost is the sum over the blocks
\* and orders of the task of demand / capacity (the orders of positive
\* capacity only); the division raises ZeroDivisionError when cost is 0.
FlatRelevance(task, registered) ==
    LET pairs == {<<b, alpha>> \in Range(task.block_ids) \X DOMAIN task.budget :
                    registered[b].initial_budget[alpha] > 0}
        share == [ba \in pairs |->
                    task.budget[ba[2]] *
                        (CapProduct \div registered[ba[1]].initial_budget[ba[2]])]
        cost == SumOver(pairs, share)
    IN  IF cost = 0 THEN Throw("ZeroDivisionError")
        ELSE Value(<<task.profit * CapProduct, cost>>)

\* A float that may be infinite: inf is 1 (+infinity), 0 - 1 (-infinity) or
\* 0 (the finite number value).
Finite(x) == [inf |-> 0, value |-> x]

PosInfinity == [inf |-> 1, value |-> 0]

NegInfinity == [inf |-> 0 - 1, value |-> 0]

\* x > 0
GreaterThanZero(x) == x.inf = 1 \/ (x.inf = 0 /\ x.value > 0)

\* n <= x, for a finite n
AtMost(n, x) == x.inf = 1 \/ (x.inf = 0 /\ n <= x.value)

\* Fractions <<numerator, denominator>> with a positive denominator.
RECURSIVE Gcd(_, _)
Gcd(m, n) == IF n = 0 THEN m ELSE Gcd(n, m % n)

\* The fraction in lowest terms (the numerator is not negative, the
\* denominator positive).
Reduced(p) == LET g == Gcd(p[1], p[2]) IN <<p[1] \div g, p[2] \div g>>

FracAdd(p, q) == Reduced(<<p[1] * q[2] + q[1] * p[2], p[2] * q[2]>>)

FracEq(p, q) == p[1] * q[2] = q[1] * p[2]

\* The elements of a set of numbers as an ascending list.
RECURSIVE SortedList(_)
SortedList(S) ==
    IF S = {} THEN <<>> ELSE <<SetMin(S)>> \o SortedList(S \ {SetMin(S)})

\* The loop of solve_local_knapsack_no_profits: a demand is taken when it
\* still fits.
RECURSIVE KnapsackLoop(_, _, _, _)
KnapsackLoop(demands, capacity, sum, opt) ==
    IF demands = <<>> THEN opt
    ELSE IF AtMost(sum + Head(demands), capacity)
         THEN KnapsackLoop(Tail(demands), capacity, sum + Head(demands), opt + 1)
         ELSE KnapsackLoop(Tail(demands), capacity, sum, opt)

\* The mutant: the demands are taken in the order of the dictionary.
SolveLocalKnapsackUnsorted(capacity, task_demands) ==
    IF ~GreaterThanZero(capacity) THEN 0
    ELSE KnapsackLoop(task_demands, capacity, 0, 0)

\* SoftKnapsack.solve_local_knapsack_no_profits(capacity, task_demands):
\* 0 when capacity <= 0; otherwise the demands (the values of the
\* dictionary) are sorted and taken greedily, smallest first.
SolveLocalKnapsackNoProfits(capacity, task_demands) ==
    IF ~GreaterThanZero(capacity) THEN 0
    ELSE KnapsackLoop(SortSeq(task_demands, LAMBDA x, y : x < y), capacity, 0, 0)

\* available_budget[block_id, alpha_index] of compute_relevance_matrix: the
\* unlocked budget when it is positive, -infinity otherwise.
AvailableBudget(block, alpha) ==
    LET eps == block.available_unlocked_budget[alpha]
    IN  IF eps > 0 THEN Finite(eps) ELSE NegInfinity

\* local_tasks_per_block[block_id]: the tasks that demand the block.
LocalTasks(tasks, block_id) ==
    SelectSeq(tasks, LAMBDA t : block_id \in Range(t.block_ids))

\* ArgmaxKnapsack.compute_relevance_matrix(blocks, tasks), with normalize_by
\* empty and save_profit_matrix off: the knapsack optimum of every (block,
\* alpha), then per row the entries equal to the row's maximum become 1 and
\* the others 0.  The rows are blocks[0 .. len(blocks) - 1]; the alphas are
\* those of the first block.
ArgmaxKnapsack(registered, tasks) ==
    LET n_blocks == Cardinality(DOMAIN registered)
    IN  IF n_blocks = 0 THEN Throw("IndexError")
        ELSE IF ~((0..(n_blocks - 1)) \subseteq DOMAIN registered) THEN Throw("KeyError")
        ELSE LET alphas == DOMAIN registered[SetMin(DOMAIN registered)].initial_budget
                 max_profits ==
                    [block_id \in 0..(n_blocks - 1) |-> [alpha \in alphas |->
                        LET local_tasks == LocalTasks(tasks, block_id)
                        IN  SolveLocalKnapsackNoProfits(
                                AvailableBudget(registered[block_id], alpha),
                                [i \in 1..Len(local_tasks) |-> local_tasks[i].budget[alpha]])]]
                 RowMax(row) == SetMax({row[alpha] : alpha \in alphas})
             IN  Value([max_profits |-> max_profits,
                        relevance |->
                           [block_id \in 0..(n_blocks - 1) |-> [alpha \in alphas |->
                               IF max_profits[block_id][alpha] = RowMax(max_profits[block_id])
                               THEN 1 ELSE 0]]])

\* The blocks the tasks demand, and the orders they demand on a block.
DemandedBlocks(tasks) == UNION {Range(tasks[i].block_ids) : i \in 1..Len(tasks)}

DemandedAlphas(tasks, block_id) ==
    UNION {DOMAIN tasks[i].budget :
              i \in {j \in 1..Len(tasks) : block_id \in Range(tasks[j].block_ids)}}

\* The sum of the tasks' demands on an order of a block.
RECURSIVE SumDemands(_, _, _)
SumDemands(tasks, block_id, alpha) ==
    IF tasks = <<>> THEN 0
    ELSE LET t == Head(tasks)
         IN  (IF block_id \in Range(t.block_ids) /\ alpha \in DOMAIN t.budget
              THEN t.budget[alpha] ELSE 0)
             + SumDemands(Tail(tasks), block_id, alpha)

\* overflow_b_a of OverflowRelevance.apply: the demands of the tasks minus
\* the initial budget.
InitialOverflow(registered, tasks) ==
    [block_id \in DemandedBlocks(tasks) |->
        [a \in DemandedAlphas(tasks, block_id) |->
            Finite(SumDemands(tasks, block_id, a)
                   - registered[block_id].initial_budget[a])]]

\* BatchOverflowRelevance.compute_overflow: the demands of the tasks minus
\* the available unlocked budget; +infinity for an order without available
\* unlocked budget.
ComputeOverflow(registered, tasks) ==
    [block_id \in DemandedBlocks(tasks) |->
        [a \in DemandedAlphas(tasks, block_id) |->
            LET available_unlocked_budget ==
                    registered[block_id].available_unlocked_budget[a]
            IN  IF available_unlocked_budget > 0
                THEN Finite(SumDemands(tasks, block_id, a) - available_unlocked_budget)
                ELSE PosInfinity]]

\* demand / overflow, for overflow > 0
Quotient(demand, overflow) ==
    IF overflow.inf = 1 THEN <<0, 1>> ELSE <<demand, overflow.value>>

\* The mutant: at the first overflow <= 0 the loop is left with the cost
\* accumulated so far.
RECURSIVE BlockCostNoReset(_, _, _, _)
BlockCostNoReset(alphas, block_demand, overflow_a, cost) ==
    IF alphas = <<>> THEN cost
    ELSE LET alpha == Head(alphas)
         IN  IF GreaterThanZero(overflow_a[alpha])
             THEN BlockCostNoReset(Tail(alphas), block_demand, overflow_a,
                            FracAdd(cost, Quotient(block_demand[alpha], overflow_a[alpha])))
             ELSE cost

\* The inner loop over the alphas of a block's demand: the cost grows by
\* demand / overflow while overflow > 0; at the first overflow <= 0 the cost
\* of the block is reset to 0 and the loop is left.
RECURSIVE BlockCost(_, _, _, _)
BlockCost(alphas, block_demand, overflow_a, cost) ==
    IF alphas = <<>> THEN cost
    ELSE LET alpha == Head(alphas)
         IN  IF GreaterThanZero(overflow_a[alpha])
             THEN BlockCost(Tail(alphas), block_demand, overflow_a,
                            FracAdd(cost, Quotient(block_demand[alpha], overflow_a[alpha])))
             ELSE <<0, 1>>

\* total_cost: the sum of the costs of the task's blocks.
RECURSIVE TotalCost(_, _, _)
TotalCost(block_ids, task, overflow_b_a) ==
    IF block_ids = <<>> THEN <<0, 1>>
    ELSE FracAdd(BlockCost(SortedList(DOMAIN task.budget), task.budget,
                           overflow_b_a[Head(block_ids)], <<0, 1>>),
                 TotalCost(Tail(block_ids), task, overflow_b_a))

\* The second half of OverflowRelevance.apply and BatchOverflowRelevance.apply
\* (the same code): task.cost is set to total_cost, the rank is +infinity
\* when total_cost <= 0 and profit / total_cost otherwise.
CostAndRank(task, overflow_b_a) ==
    LET total_cost == TotalCost(task.block_ids, task, overflow_b_a)
    IN  Value([cost |-> total_cost,
               rank |-> IF total_cost[1] <= 0 THEN PosInfinity
                        ELSE Finite(<<task.profit * total_cost[2], total_cost[1]>>)])

\* OverflowRelevance.apply(task, blocks, tasks)
OverflowRelevance(task, registered, tasks) ==
    CostAndRank(task, InitialOverflow(registered, tasks))

\* BatchOverflowRelevance.apply(task, blocks, tasks, overflow): overflow is
\* <<>> for None and <<d>> for the dictionary d.  A non-empty dictionary is
\* used as it is; otherwise compute_overflow is called on the class with
\* (blocks, tasks), which binds self to blocks, blocks to tasks and tasks to
\* None, and iterating over None raises TypeError.
BatchOverflowRelevance(task, registered, tasks, overflow) ==
    IF overflow # <<>> /\ DOMAIN overflow[1] # {}
    THEN CostAndRank(task, overflow[1])
    ELSE Throw("TypeError")

\* The rank of a pending task under the scheduler's metric.
Rank(task) ==
    IF metric = "FlatRelevance" THEN FlatRelevance(task, blocks)
    ELSE Value(Fcfs(task))

RankLess(r1, r2) == r1[1] * r2[2] < r2[1] * r1[2]

\* The mutant: a metric that raised ranks above every value.
RanksBelowErrorsFirst(r1, r2) ==
    IF r1.err # "none" THEN FALSE
    ELSE IF r2.err # "none" THEN TRUE
    ELSE RankLess(r1.value, r2.value)

\* r1 ranks strictly below r2; a metric that raised ranks below every value.
RanksBelow(r1, r2) ==
    IF r2.err # "none" THEN FALSE
    ELSE IF r1.err # "none" THEN TRUE
    ELSE RankLess(r1.value, r2.value)

\* The mutant: among tasks of equal rank the latest comes first.
RECURSIVE OrderTasksTiesLatest(_)
OrderTasksTiesLatest(tasks) ==
    IF tasks = {} THEN <<>>
    ELSE LET best == CHOOSE t \in tasks : \A u \in tasks :
                        \/ RanksBelow(Rank(u), Rank(t))
                        \/ (~RanksBelow(Rank(t), Rank(u)) /\ t.id >= u.id)
         IN  <<best.id>> \o OrderTasksTiesLatest(tasks \ {best})

\* The tasks by descending rank, ties by ascending id.
RECURSIVE OrderTasks(_)
OrderTasks(tasks) ==
    IF tasks = {} THEN <<>>
    ELSE LET best == CHOOSE t \in tasks : \A u \in tasks :
                        \/ RanksBelow(Rank(u), Rank(t))
                        \/ (~RanksBelow(Rank(t), Rank(u)) /\ t.id <= u.id)
         IN  <<best.id>> \o OrderTasks(tasks \ {best})

---------------------------------------------------------------------------
(* The scheduler: its operations add_block, add_task and the scheduling     *)
(* round (unlocking, ranking, greedy commit).                               *)

\* The task types tasks are created from (Config.create_task: a profit, a
\* number of blocks and a demand each).
TaskSpecs ==
    { [profit |-> 1, n_blocks |-> 1, budget |-> [alpha \in ALPHAS |-> 0]],
      [profit |-> 1, n_blocks |-> 1, budget |-> (2 :> 1) @@ (3 :> 1) @@ (5 :> 2)],
      [profit |-> 2, n_blocks |-> 2, budget |-> (2 :> 1) @@ (3 :> 1) @@ (5 :> 2)],
      [profit |-> 1, n_blocks |-> 1, budget |-> (2 :> 1) @@ (3 :> 1)] }

\* The policies tasks come with.
TaskPolicies == {p \in Policies : p.s <= 1 /\ (p.name = "Zeta" => p.s = 1)}

\* The scheduler after construction, and no call made yet.
InitScheduler ==
    /\ blocks = <<>>
    /\ pending = <<>>
    /\ allocation = <<>>
    /\ allocated_count = 0
    /\ realized_profit = 0
    /\ n_dropped = 0
    /\ task_count = 0
    /\ pc = "idle"
    /\ order = <<>>
    /\ last = [op |-> "init"]
    /\ fn_op = "none"
    /\ fn_args = <<>>
    /\ fn_ret = <<>>

\* No Budget object under observation.
NoObjects ==
    /\ objs = <<>>
    /\ n_conversions = <<>>
    /\ first_dp = <<>>
    /\ n_samples = 0

\* No resource manager constructed.
NoResourceManager ==
    /\ now = 0
    /\ cfg = [method |-> "none"]
    /\ chan = <<>>
    /\ events = <<>>
    /\ proc = <<>>
    /\ actor = "none"
    /\ term = "none"
    /\ hist = <<>>

Init ==
    /\ metric = "Fcfs"
    /\ InitScheduler
    /\ NoObjects
    /\ NoResourceManager

\* The same, with the metric FlatRelevance.
InitFlat ==
    /\ metric = "FlatRelevance"
    /\ InitScheduler
    /\ NoObjects
    /\ NoResourceManager

\* The block map with the block registered under its id.
RegisterBlock(block) ==
    [b \in DOMAIN blocks \cup {block.id} |->
        IF b = block.id THEN block ELSE blocks[b]]

\* add_block: register the block under its id.
AddBlock ==
    /\ pc = "idle"
    /\ Cardinality(DOMAIN blocks) < MaxBlocks
    /\ LET block == CreateBlock(Cardinality(DOMAIN blocks))
       IN  /\ blocks' = RegisterBlock(block)
           /\ last' = [op |-> "add_block"]
    /\ UNCHANGED <<pending, allocation, allocated_count, realized_profit,
                   n_dropped, task_count, pc, order, metric>>

\* The task's demand fits the support of each of its blocks.
SupportCompatible(task, block_ids) ==
    \A b \in Range(block_ids) :
        b \in DOMAIN blocks /\ DOMAIN task.budget = DOMAIN blocks[b].initial_budget

\* add_task: the task's policy selects its blocks among the registered ones;
\* NotEnoughBlocks and InfeasibleTask drop the task (counted), otherwise the
\* per-block demand is set and the task joins the pending queue.
AddTask(spec, policy) ==
    /\ pc = "idle"
    /\ task_count < MaxTasks
    /\ LET task == CreateTask(task_count, spec.profit, spec.n_blocks, spec.budget)
           n_registered == Cardinality(DOMAIN blocks)
       IN  \E r \in SelectBlocks(policy, n_registered, task.n_blocks) :
             LET block_ids == DictKeys(r.blocks)
                 outcome == IF r.err # "none" THEN r.err
                            ELSE IF ~SupportCompatible(task, block_ids)
                                 THEN "InfeasibleTask"
                                 ELSE "pending"
             IN  /\ task_count' = task_count + 1
                 /\ pending' = IF outcome = "pending"
                               THEN Append(pending, [task EXCEPT !.block_ids = block_ids])
                               ELSE pending
                 /\ n_dropped' = IF outcome = "pending" THEN n_dropped
                                 ELSE n_dropped + 1
                 /\ last' = [op |-> "add_task", policy |-> policy,
                             n_blocks |-> task.n_blocks, n_registered |-> n_registered,
                             outcome |-> outcome]
    /\ UNCHANGED <<blocks, allocation, allocated_count, realized_profit, pc, order,
                   metric>>

\* The start of a scheduling round: every block takes one unlocking step and
\* the pending tasks are ranked by the metric.
StartRound ==
    /\ pc = "idle"
    /\ blocks' = [b \in DOMAIN blocks |-> BlockUnlock(blocks[b])]
    /\ order' = OrderTasks(Range(pending))
    /\ pc' = IF order' = <<>> THEN "idle" ELSE "round"
    /\ last' = [op |-> "schedule"]
    /\ UNCHANGED <<pending, allocation, allocated_count, realized_profit,
                   n_dropped, task_count, metric>>

PendingTask(task_id) == CHOOSE t \in Range(pending) : t.id = task_id

\* can_run: every block of the task can allocate its demand.
CanRun(task) ==
    \A b \in Range(task.block_ids) : BlockCanAllocate(blocks[b], GetBudget(task, b))

\* The mutant: an allocated task stays in the queue.
RemoveTaskNot(queue, task_id) == queue

RemoveTask(queue, task_id) == SelectSeq(queue, LAMBDA t : t.id # task_id)

\* One iteration of the greedy commit: the next task in metric order is
\* committed on all its blocks when all of them can allocate it, and is
\* skipped (it stays pending) otherwise.
ConsiderTask ==
    /\ pc = "round"
    /\ order # <<>>
    /\ LET task == PendingTask(Head(order))
           can_run == CanRun(task)
       IN  /\ IF can_run
              THEN /\ blocks' = [b \in DOMAIN blocks |->
                                    IF b \in Range(task.block_ids)
                                    THEN BlockAllocate(blocks[b], GetBudget(task, b))
                                    ELSE blocks[b]]
                   /\ pending' = RemoveTask(pending, task.id)
                   /\ allocation' = Append(allocation, task)
                   /\ allocated_count' = allocated_count + 1
                   /\ realized_profit' = realized_profit + task.profit
              ELSE UNCHANGED <<blocks, pending, allocation, allocated_count,
                               realized_profit>>
           /\ last' = [op |-> "schedule"]
    /\ order' = Tail(order)
    /\ pc' = IF order' = <<>> THEN "idle" ELSE "round"
    /\ UNCHANGED <<n_dropped, task_count, metric>>

Next ==
    \/ (AddBlock /\ UNCHANGED <<fnVars, objVars, rmVars>>)
    \/ (\E spec \in TaskSpecs, policy \in TaskPolicies :
            AddTask(spec, policy) /\ UNCHANGED <<fnVars, objVars, rmVars>>)
    \/ (StartRound /\ UNCHANGED <<fnVars, objVars, rmVars>>)
    \/ (ConsiderTask /\ UNCHANGED <<fnVars, objVars, rmVars>>)

Spec == Init /\ [][Next]_vars

\* The scheduler with the metric FlatRelevance.
SpecFlat == InitFlat /\ [][Next]_vars

---------------------------------------------------------------------------
(* Calls of the pure functions, on inputs drawn from bounded sets *)

EpsValues == (0 - 1)..EpsMax

\* Budgets over every support within ALPHAS, the empty one included.
BudgetInputs == UNION {[support -> EpsValues] : support \in SUBSET ALPHAS}

CallCanAllocate ==
    /\ fn_op = "none"
    /\ \E self \in BudgetInputs, demand \in BudgetInputs :
          /\ fn_op' = "can_allocate"
          /\ fn_args' = <<self, demand>>
          /\ fn_ret' = CanAllocate(self, demand)
    /\ UNCHANGED <<schedVars, objVars, rmVars>>

\* select_blocks for a task, and the keys of the task's budget_per_block once
\* set_budget_per_block has run over the selection.
CallSelectBlocks ==
    /\ fn_op = "none"
    /\ \E policy \in Policies, n_blocks \in 0..MaxSel, task_blocks_num \in 1..(MaxSel + 1) :
          \E r \in SelectBlocks(policy, n_blocks, task_blocks_num) :
              /\ fn_op' = "select_blocks"
              /\ fn_args' = <<policy, n_blocks, task_blocks_num>>
              /\ fn_ret' = [err |-> r.err, blocks |-> r.blocks,
                            keys |-> DictKeys(r.blocks)]
    /\ UNCHANGED <<schedVars, objVars, rmVars>>

\* The binary operations of Budget, by name.
PairwiseOps == {"__add__", "__sub__", "normalize_by", "__eq__"}

Pairwise(op, self, other) ==
    CASE op = "__add__" -> Value(BudgetAdd(self, other))
      [] op = "__sub__" -> Value(BudgetSub(self, other))
      [] op = "normalize_by" -> Value(NormalizeBy(self, other))
      [] op = "__eq__" -> BudgetEq(self, other)

CallPairwise ==
    /\ fn_op = "none"
    /\ \E op \in PairwiseOps, self \in BudgetInputs, other \in BudgetInputs :
          /\ fn_op' = op
          /\ fn_args' = <<self, other>>
          /\ fn_ret' = Pairwise(op, self, other)
    /\ UNCHANGED <<schedVars, objVars, rmVars>>

\* Thresholds: the capacity of a block, over every support.
ThresholdInputs ==
    LET capacity == FromEpsilonDelta(BlockEpsilon, LogDelta, ALPHAS)
    IN  {[alpha \in support |-> capacity[alpha]] : support \in SUBSET ALPHAS}

CallAddWithThreshold ==
    /\ fn_op = "none"
    /\ \E self \in BudgetInputs, other \in BudgetInputs, threshold \in ThresholdInputs :
          /\ fn_op' = "add_with_threshold"
          /\ fn_args' = <<self, other, threshold>>
          /\ fn_ret' = AddWithThreshold(self, other, threshold)
    /\ UNCHANGED <<schedVars, objVars, rmVars>>

NextFn ==
    \/ CallCanAllocate
    \/ CallSelectBlocks
    \/ CallPairwise
    \/ CallAddWithThreshold

SpecFn == Init /\ [][NextFn]_vars

---------------------------------------------------------------------------
(* Calls of the knapsack solver and of the metrics *)

\* The capacities of a knapsack: -infinity and the numbers around the
\* demands.
KnapsackCapacities == {NegInfinity} \cup {Finite(c) : c \in (0 - 1)..(2 * EpsMax)}

\* The values of task_demands, in the order of the dictionary.
KnapsackDemands == UNION {[1..n -> 0..EpsMax] : n \in 0..MaxSel}

CallSolveLocalKnapsack ==
    /\ fn_op = "none"
    /\ \E capacity \in KnapsackCapacities, task_demands \in KnapsackDemands :
          /\ fn_op' = "solve_local_knapsack_no_profits"
          /\ fn_args' = <<capacity, task_demands>>
          /\ fn_ret' = SolveLocalKnapsackNoProfits(capacity, task_demands)
    /\ UNCHANGED <<schedVars, objVars, rmVars>>

NextKnapsack == CallSolveLocalKnapsack

SpecKnapsack == Init /\ [][NextKnapsack]_vars

\* A block after some unlocking steps.
RECURSIVE Unlocked(_, _)
Unlocked(block, steps) ==
    IF steps = 0 THEN block ELSE Unlocked(BlockUnlock(block), steps - 1)

\* The block maps a metric is called with: blocks 0 .. n - 1, each unlocked
\* once or more (a round unlocks before it ranks), an earlier block no less
\* often than a later one, nothing allocated.
MetricBlocks ==
    {[block_id \in DOMAIN steps |-> Unlocked(CreateBlock(block_id), steps[block_id])] :
        steps \in {f \in UNION {[0..(n - 1) -> 1..UnlockN] : n \in 0..MaxBlocks} :
                      \A b1 \in DOMAIN f, b2 \in DOMAIN f : b1 < b2 => f[b1] >= f[b2]}}

\* The demand of a pending task: an epsilon of 0 or 1 per order of ALPHAS,
\* not decreasing with the order (as an RDP curve), or the demand of one of
\* the task types.
MetricDemands ==
    {d \in [ALPHAS -> 0..1] : \A a1 \in ALPHAS, a2 \in ALPHAS : a1 < a2 => d[a1] <= d[a2]}
    \cup {spec.budget : spec \in {x \in TaskSpecs : DOMAIN x.budget = ALPHAS}}

\* The pending tasks a metric is called with: task i has the id i - 1 and
\* the profit i, and demands its budget on the latest k blocks.
MetricTasks(registered) ==
    LET n_blocks == Cardinality(DOMAIN registered)
        shapes == {[budget |-> d, block_ids |-> Reversed(PyRange(n_blocks - k, n_blocks))] :
                      d \in MetricDemands, k \in 1..n_blocks}
    IN  {[i \in DOMAIN q |->
            [CreateTask(i - 1, i, Len(q[i].block_ids), q[i].budget)
                EXCEPT !.block_ids = q[i].block_ids]] :
         q \in UNION {[1..n -> shapes] : n \in 0..MaxTasks}}

CallArgmaxKnapsack ==
    /\ fn_op = "none"
    /\ \E registered \in MetricBlocks : \E tasks \in MetricTasks(registered) :
          /\ fn_op' = "ArgmaxKnapsack"
          /\ fn_args' = <<registered, tasks>>
          /\ fn_ret' = ArgmaxKnapsack(registered, tasks)
    /\ UNCHANGED <<schedVars, objVars, rmVars>>

CallOverflowRelevance ==
    /\ fn_op = "none"
    /\ \E registered \in MetricBlocks : \E tasks \in MetricTasks(registered) :
          \E i \in DOMAIN tasks :
              /\ fn_op' = "OverflowRelevance"
              /\ fn_args' = <<tasks[i], registered, tasks>>
              /\ fn_ret' = OverflowRelevance(tasks[i], registered, tasks)
    /\ UNCHANGED <<schedVars, objVars, rmVars>>

\* BatchOverflowRelevance.apply, with the overflow of the round passed in or
\* left out.
CallBatchOverflowRelevance ==
    /\ fn_op = "none"
    /\ \E registered \in MetricBlocks : \E tasks \in MetricTasks(registered) :
          \E i \in DOMAIN tasks :
              \E overflow \in {<<>>, <<ComputeOverflow(registered, tasks)>>} :
                  /\ fn_op' = "BatchOverflowRelevance"
                  /\ fn_args' = <<tasks[i], registered, tasks, overflow>>
                  /\ fn_ret' = BatchOverflowRelevance(tasks[i], registered, tasks, overflow)
    /\ UNCHANGED <<schedVars, objVars, rmVars>>

NextMetric ==
    \/ CallArgmaxKnapsack
    \/ CallOverflowRelevance
    \/ CallBatchOverflowRelevance

SpecMetric == Init /\ [][NextMetric]_vars

---------------------------------------------------------------------------

(* Calls of the methods of two Budget objects, in any number and order *)

\* Budgets with at least one order.
ObjInputs == {b \in BudgetInputs : DOMAIN b # {}}

InitObj ==
    /\ metric = "Fcfs"
    /\ InitScheduler
    /\ NoResourceManager
    /\ \E b1 \in ObjInputs, b2 \in {t \in ThresholdInputs : {2, 3} \subseteq DOMAIN t} :
          objs = <<NewBudget(b1), NewBudget(b2)>>
    /\ n_conversions = <<0, 0>>
    /\ first_dp = << <<>>, <<>> >>
    /\ n_samples = 0

\* The methods that build a new Budget (or a boolean) from their operands.
ObjOps == PairwiseOps \cup {"can_allocate", "same_support", "add_with_threshold",
                            "positive", "__mul__", "__truediv__"}

ObjApply(op, self, other) ==
    CASE op \in PairwiseOps -> Pairwise(op, self, other)
      [] op = "can_allocate" -> Value(CanAllocate(self, other))
      [] op = "same_support" -> Value(SameSupport(self, other))
      [] op = "add_with_threshold" -> AddWithThreshold(self, other, other)
      [] op = "positive" -> Value(Positive(self))
      [] op = "__mul__" -> Value(BudgetMul(self, 2))
      [] op = "__truediv__" -> Value(BudgetTrueDiv(self, 2))

\* A method other than dp_budget, called on object i with the other object
\* as argument: the result is a new object, no attribute of i or of the
\* argument is assigned.
ObjCall ==
    \E op \in ObjOps, i \in {1, 2} :
        /\ fn_op' = op
        /\ fn_args' = <<i, 3 - i>>
        /\ fn_ret' = ObjApply(op, objs[i].orders, objs[3 - i].orders)
        /\ UNCHANGED <<objs, n_conversions, first_dp, n_samples>>
        /\ UNCHANGED <<schedVars, rmVars>>

\* dp_budget(delta) called on object i.
ObjDpBudget ==
    \E i \in {1, 2}, logdelta \in LogDeltas :
        LET r == DpBudget(objs[i], logdelta)
        IN  /\ fn_op' = "dp_budget"
            /\ fn_args' = <<i, logdelta>>
            /\ fn_ret' = r.ret
            /\ objs' = [objs EXCEPT ![i] = r.obj]
            /\ n_conversions' = [n_conversions EXCEPT ![i] = @ + r.computed]
            /\ first_dp' = [first_dp EXCEPT ![i] = IF @ = <<>> THEN <<r.ret>> ELSE @]
            /\ UNCHANGED <<n_samples, schedVars, rmVars>>

NextObj == ObjCall \/ ObjDpBudget

SpecObj == InitObj /\ [][NextObj]_vars

---------------------------------------------------------------------------
(* Task.sample_n_blocks_and_profit (task.py), called any number of times on *)
(* one Task.                                                                *)

\* The values of the attributes n_blocks and profit: a str (a distribution
\* "value:frequency,...", as its parsed list of pairs), an int, or a float
\* (in halves, so that int() has something to cut off).
PyStr(pairs) == [type |-> "str", pairs |-> pairs, value |-> 0]

PyInt(n) == [type |-> "int", pairs |-> <<>>, value |-> n]

PyFloat(halves) == [type |-> "float", pairs |-> <<>>, value |-> halves]

\* isinstance(x, str)
IsStr(x) == x.type = "str"

\* int(x) of a non-negative float
IntOf(x) == PyInt(x.value \div 2)

\* sample_one_from_string: the values the draw can return, those of a
\* positive frequency.
SampleOneFromString(stochastic_string) ==
    {PyFloat(stochastic_string.pairs[i][1]) :
        i \in {j \in DOMAIN stochastic_string.pairs : stochastic_string.pairs[j][2] > 0}}

\* The mutant: the sample of the profit is drawn and not assigned.
SampleNBlocksAndProfitUnassigned(task) ==
    {[task |-> [task EXCEPT !.n_blocks = n_blocks],
      draws |-> (IF IsStr(task.n_blocks) THEN 1 ELSE 0)
                + (IF IsStr(task.profit) THEN 1 ELSE 0)] :
        n_blocks \in IF IsStr(task.n_blocks)
                     THEN {IntOf(x) : x \in SampleOneFromString(task.n_blocks)}
                     ELSE {task.n_blocks}}

\* Task.sample_n_blocks_and_profit: the outcomes of a call, each the task
\* after the call and the number of samples drawn.  An attribute that is a
\* str is replaced by a sample of it (n_blocks through int()).
SampleNBlocksAndProfit(task) ==
    {[task |-> [task EXCEPT !.n_blocks = n_blocks, !.profit = profit],
      draws |-> (IF IsStr(task.n_blocks) THEN 1 ELSE 0)
                + (IF IsStr(task.profit) THEN 1 ELSE 0)] :
        n_blocks \in IF IsStr(task.n_blocks)
                     THEN {IntOf(x) : x \in SampleOneFromString(task.n_blocks)}
                     ELSE {task.n_blocks},
        profit \in IF IsStr(task.profit)
                   THEN SampleOneFromString(task.profit)
                   ELSE {task.profit}}

\* The distributions: one or two pairs of a value (in halves) and a
\* frequency that is zero or positive, not all frequencies zero.
StochasticStrings ==
    LET pairs == ((2..(2 * MaxBlocks + 1)) \X {0, 1})
    IN  {PyStr(s) : s \in {q \in UNION {[1..n -> pairs] : n \in 1..2} :
                              \E i \in DOMAIN q : q[i][2] > 0}}

\* A Task as constructed: n_blocks an int or a str, profit a float or a str.
InitTask ==
    /\ metric = "Fcfs"
    /\ InitScheduler
    /\ NoResourceManager
    /\ \E n_blocks \in {PyInt(n) : n \in 1..MaxBlocks} \cup StochasticStrings,
          profit \in {PyFloat(2), PyFloat(3)} \cup StochasticStrings :
          objs = <<[n_blocks |-> n_blocks, profit |-> profit]>>
    /\ n_conversions = <<>>
    /\ first_dp = <<>>
    /\ n_samples = 0

\* A call of sample_n_blocks_and_profit on the task; fn_args counts the
\* calls.
CallSample ==
    /\ (IF fn_args = <<>> THEN 0 ELSE fn_args[1]) < MaxSel
    /\ \E r \in SampleNBlocksAndProfit(objs[1]) :
          /\ objs' = <<r.task>>
          /\ n_samples' = n_samples + r.draws
    /\ fn_op' = "sample_n_blocks_and_profit"
    /\ fn_args' = IF fn_args = <<>> THEN <<1>> ELSE <<fn_args[1] + 1>>
    /\ UNCHANGED <<fn_ret, n_conversions, first_dp, schedVars, rmVars>>

NextTask == CallSample

SpecTask == InitTask /\ [][NextTask]_vars

---------------------------------------------------------------------------

(* The resource manager (resourcemanager.py) and the block producer         *)
(* (blocks.py), as simpy processes on a virtual clock.  A step of a process *)
(* runs from one yield to the next; the steps that are due at a time are    *)
(* taken in any order; the clock advances when none is due.                 *)

\* Config.block_arrival_interval
BlockArrivalInterval == 1

\* scheduler.data_lifetime
DataLifetime == 2

\* tasks.initial_num
InitialTasksNum == 1

\* The clock stops at MaxTime.
MaxTime == 6

\* The inter-arrival time of the last task the model lets arrive: longer
\* than block production and its grace period.
LongInterval == MaxBlocks + 1

EventNames == {"blocks_initialized", "block_production_terminated",
               "task_production_terminated", "simulation_terminated"}

\* The event a block process creates for its block and waits for.
GeneratedBlockEvent(block_id) ==
    <<"generated_block_event_0", "generated_block_event_1",
      "generated_block_event_2", "generated_block_event_3">>[block_id + 1]

\* The events of a simulation, and the mark of a succeed() that raised
\* RuntimeError because the event had been triggered before.
AllEvents ==
    EventNames \cup {GeneratedBlockEvent(b) : b \in 0..(MaxBlocks - 1)}
               \cup {"already_triggered"}

Triggered(e) == events[e] >= 0

\* event.succeed(): the event is triggered at the present time; on an
\* event that is triggered already it raises RuntimeError.
Succeed(evs, e) ==
    IF evs[e] >= 0 THEN [evs EXCEPT !["already_triggered"] = now]
    ELSE [evs EXCEPT ![e] = now]

\* The mutant: succeed() without the test.
SucceedUnguarded(evs, e) == Succeed(evs, e)

\* if not event.triggered: event.succeed()
SucceedOnce(evs, e) == IF evs[e] >= 0 THEN evs ELSE Succeed(evs, e)

\* The configurations: batch with some or all blocks initial and a
\* scheduling period of 1 or 3; offline, where max_num is initial_num.
RMConfigs ==
    {[method |-> "batch", initial_blocks |-> i, max_blocks |-> MaxBlocks,
      period |-> p] : i \in {1, MaxBlocks}, p \in {1, 3}}
    \cup {[method |-> "offline", initial_blocks |-> MaxBlocks,
           max_blocks |-> MaxBlocks, period |-> 1]}

\* A process: where it is, when it wakes up if it sleeps, and its counter.
P(where, wake, n) == [pc |-> where, wake |-> wake, n |-> n]

Off == P("off", 0, 0)

Done == P("done", 0, 0)

ProcNames == {"start", "bp", "tp", "bc", "tc", "tclock", "dclock", "sched"}

InitRM ==
    /\ metric = "Fcfs"
    /\ InitScheduler
    /\ NoObjects
    /\ now = 0
    /\ cfg \in RMConfigs
    /\ chan = [blocks |-> <<>>, tasks |-> <<>>, block_procs |-> <<>>]
    /\ events = [e \in AllEvents |-> 0 - 1]
    /\ proc = [p \in ProcNames |-> IF p = "start" THEN P("init", 0, 0) ELSE Off]
    /\ actor = "none"
    /\ term = "none"
    /\ hist = [round_pending |-> <<>>, settled |-> TRUE, round_at |-> 0 - 1]

\* What travels on the channels, with the time it was put.
BlockItem(block_id) == [kind |-> "block", id |-> block_id, t |-> now]

TaskItem == [kind |-> "task", id |-> 0, t |-> now]

LastItem == [kind |-> "LastItem", id |-> 0, t |-> now]

\* The task every producer step submits, and its policy.
RMTaskSpec == [profit |-> 1, n_blocks |-> 1, budget |-> (2 :> 1) @@ (3 :> 1) @@ (5 :> 2)]

RMPolicy == [name |-> "LatestBlocksFirst", s |-> 0]

\* No scheduling round is running: a round has no yield, so no process
\* takes a step in the middle of one.
RMIdle ==
    /\ pc = "idle"
    /\ proc.start.pc \notin {"init", "ran"}
    /\ proc.sched.pc # "ran"

Due(p) == proc[p].pc \in {"sleep", "sleep1", "sleep2"} /\ proc[p].wake <= now

\* ResourceManager.start.  Batch: the consumers, the daemon clock, the
\* termination clock and the scheduling coroutine are started.  Offline: the
\* consumers are started, both production events are triggered, and start
\* waits for the task consumer.
Start ==
    /\ proc.start.pc = "init"
    /\ IF cfg.method = "batch"
       THEN /\ proc' = [proc EXCEPT
                    !.start = Done,
                    !.bc = P("for", 0, cfg.initial_blocks),
                    !.tc = P("for", 0, InitialTasksNum),
                    !.dclock = P("sleep", now + 1, 0),
                    !.tclock = P("wait", 0, 0),
                    !.sched = P("sleep", now + cfg.period, 0),
                    !.bp = P("start", 0, 0),
                    !.tp = P("start", 0, 0)]
            /\ UNCHANGED events
       ELSE /\ proc' = [proc EXCEPT
                    !.start = P("wait", 0, 0),
                    !.bc = P("for", 0, cfg.initial_blocks),
                    !.tc = P("for", 0, InitialTasksNum),
                    !.bp = P("start", 0, 0),
                    !.tp = P("start", 0, 0)]
            /\ events' = Succeed(Succeed(events, "block_production_terminated"),
                                 "task_production_terminated")
    /\ actor' = "start"
    /\ UNCHANGED <<now, cfg, chan, term, hist, schedVars>>

\* Blocks.block_producer up to its first yield: the processes of the
\* initial blocks and of the first later block are created, in the order of
\* their ids; without later blocks the producer ends.
BlockProducerStart ==
    /\ RMIdle
    /\ proc.bp.pc = "start"
    /\ LET initial == [i \in 1..cfg.initial_blocks |-> i - 1]
       IN  IF cfg.max_blocks - cfg.initial_blocks > 0
           THEN /\ chan' = [chan EXCEPT !.block_procs =
                                Append(@ \o initial, cfg.initial_blocks)]
                /\ proc' = [proc EXCEPT !.bp =
                                P("sleep", now + BlockArrivalInterval,
                                  cfg.initial_blocks + 1)]
                /\ UNCHANGED events
           ELSE /\ chan' = [chan EXCEPT !.block_procs = @ \o initial]
                /\ proc' = [proc EXCEPT !.bp = Done]
                /\ events' = SucceedOnce(events, "block_production_terminated")
    /\ actor' = "block_producer"
    /\ UNCHANGED <<now, cfg, term, hist, schedVars>>

\* The mutant: LastItem is put on the channel of the tasks.
BlockProducerWakeWrongChannel ==
    /\ RMIdle
    /\ Due("bp")
    /\ IF proc.bp.n < cfg.max_blocks
       THEN /\ chan' = [chan EXCEPT !.block_procs = Append(@, proc.bp.n)]
            /\ proc' = [proc EXCEPT !.bp = P("sleep", now + BlockArrivalInterval, @.n + 1)]
            /\ UNCHANGED events
       ELSE /\ chan' = [chan EXCEPT !.tasks = Append(@, LastItem)]
            /\ proc' = [proc EXCEPT !.bp = Done]
            /\ events' = SucceedOnce(events, "block_production_terminated")
    /\ actor' = "block_producer"
    /\ UNCHANGED <<now, cfg, term, hist, schedVars>>

\* Blocks.block_producer after a timeout: the next block, or the end of the
\* loop: LastItem is put and block_production_terminated is triggered.
BlockProducerWake ==
    /\ RMIdle
    /\ Due("bp")
    /\ IF proc.bp.n < cfg.max_blocks
       THEN /\ chan' = [chan EXCEPT !.block_procs = Append(@, proc.bp.n)]
            /\ proc' = [proc EXCEPT !.bp = P("sleep", now + BlockArrivalInterval, @.n + 1)]
            /\ UNCHANGED events
       ELSE /\ chan' = [chan EXCEPT !.blocks = Append(@, LastItem)]
            /\ proc' = [proc EXCEPT !.bp = Done]
            /\ events' = SucceedOnce(events, "block_production_terminated")
    /\ actor' = "block_producer"
    /\ UNCHANGED <<now, cfg, term, hist, schedVars>>

\* The mutant: the block processes run in any order.
BlockPutAnyOrder ==
    /\ RMIdle
    /\ chan.block_procs # <<>>
    /\ \E i \in DOMAIN chan.block_procs :
          chan' = [chan EXCEPT
                      !.block_procs = SubSeq(@, 1, i - 1) \o SubSeq(@, i + 1, Len(@)),
                      !.blocks = Append(@, BlockItem(chan.block_procs[i]))]
    /\ actor' = "block_producer"
    /\ UNCHANGED <<now, cfg, events, proc, term, hist, schedVars>>

\* Blocks.block up to its wait for generated_block_event: the block is
\* created and put on new_blocks_queue with its event.  The environment
\* runs the processes in the order they were created in.
BlockPut ==
    /\ RMIdle
    /\ chan.block_procs # <<>>
    /\ chan' = [chan EXCEPT !.block_procs = Tail(@),
                            !.blocks = Append(@, BlockItem(Head(chan.block_procs)))]
    /\ actor' = "block_producer"
    /\ UNCHANGED <<now, cfg, events, proc, term, hist, schedVars>>

\* The times to the next arrival the producer may draw after its made-th
\* task; the last task the model lets arrive is followed by a long one.
TaskIntervals(made) == IF made < MaxTasks THEN {0, 1} ELSE {LongInterval}

\* The mutant: the producer ends without closing the channel.
TaskProducerLoopNoLastItem(q, made) ==
    IF Triggered("task_production_terminated")
    THEN /\ chan' = [chan EXCEPT !.tasks = q]
         /\ proc' = [proc EXCEPT !.tp = Done]
    ELSE \E interval \in TaskIntervals(made + 1) :
            /\ chan' = [chan EXCEPT !.tasks = Append(q, TaskItem)]
            /\ proc' = [proc EXCEPT !.tp = P("sleep", now + interval, made + 1)]

\* One iteration of the task producer's loop, from the queue q: while task
\* production is not terminated a task is put and the producer sleeps for
\* the inter-arrival time; afterwards it closes the channel with LastItem.
TaskProducerLoop(q, made) ==
    IF Triggered("task_production_terminated")
    THEN /\ chan' = [chan EXCEPT !.tasks = Append(q, LastItem)]
         /\ proc' = [proc EXCEPT !.tp = Done]
    ELSE \E interval \in TaskIntervals(made + 1) :
            /\ chan' = [chan EXCEPT !.tasks = Append(q, TaskItem)]
            /\ proc' = [proc EXCEPT !.tp = P("sleep", now + interval, made + 1)]

\* The task producer up to its first yield: the initial tasks, then (batch)
\* the first iteration of its loop.
TaskProducerStart ==
    /\ RMIdle
    /\ proc.tp.pc = "start"
    /\ LET q == chan.tasks \o [i \in 1..InitialTasksNum |-> TaskItem]
       IN  IF cfg.method = "offline"
           THEN /\ chan' = [chan EXCEPT !.tasks = q]
                /\ proc' = [proc EXCEPT !.tp = Done]
           ELSE TaskProducerLoop(q, InitialTasksNum)
    /\ actor' = "task_producer"
    /\ UNCHANGED <<now, cfg, events, term, hist, schedVars>>

TaskProducerWake ==
    /\ RMIdle
    /\ Due("tp")
    /\ TaskProducerLoop(chan.tasks, proc.tp.n)
    /\ actor' = "task_producer"
    /\ UNCHANGED <<now, cfg, events, term, hist, schedVars>>

\* block_consumer between two consume(): the for loop over the initial
\* blocks, then blocks_initialized and the test of the while loop.
BlockConsumerFor ==
    /\ RMIdle
    /\ proc.bc.pc = "for"
    /\ IF proc.bc.n > 0
       THEN /\ proc' = [proc EXCEPT !.bc = P("get", 0, @.n)]
            /\ UNCHANGED events
       ELSE /\ events' = Succeed(events, "blocks_initialized")
            /\ proc' = [proc EXCEPT !.bc =
                            IF Triggered("block_production_terminated")
                            THEN Done ELSE P("loop_get", 0, 0)]
    /\ actor' = "block_consumer"
    /\ UNCHANGED <<now, cfg, chan, term, hist, schedVars>>

\* block_consumer, the test of the while loop after a consume().
BlockConsumerWhile ==
    /\ RMIdle
    /\ proc.bc.pc = "while"
    /\ proc' = [proc EXCEPT !.bc =
                    IF Triggered("block_production_terminated")
                    THEN Done ELSE P("loop_get", 0, 0)]
    /\ actor' = "block_consumer"
    /\ UNCHANGED <<now, cfg, chan, events, term, hist, schedVars>>

\* The position of a consumer after a consume().
AfterConsume(p) == IF p.pc = "get" THEN P("for", 0, p.n - 1) ELSE P("while", 0, 0)

\* block_consumer.consume: an item is taken from new_blocks_queue; a block
\* is passed to scheduler.add_block and its event is triggered, LastItem is
\* dropped.
BlockConsume ==
    /\ RMIdle
    /\ proc.bc.pc \in {"get", "loop_get"}
    /\ chan.blocks # <<>>
    /\ LET item == Head(chan.blocks)
       IN  /\ chan' = [chan EXCEPT !.blocks = Tail(@)]
           /\ IF item.kind = "block"
              THEN /\ blocks' = RegisterBlock(CreateBlock(item.id))
                   /\ last' = [op |-> "add_block"]
                   /\ events' = Succeed(events, GeneratedBlockEvent(item.id))
              ELSE UNCHANGED <<blocks, last, events>>
    /\ proc' = [proc EXCEPT !.bc = AfterConsume(@)]
    /\ actor' = "block_consumer"
    /\ UNCHANGED <<now, cfg, term, hist>>
    /\ UNCHANGED <<pending, allocation, allocated_count, realized_profit,
                   n_dropped, task_count, pc, order, metric>>

\* task_consumer between two consume() of the for loop, and the first test
\* of the while loop, after which simulation_terminated is triggered.
TaskConsumerFor ==
    /\ RMIdle
    /\ proc.tc.pc = "for"
    /\ IF proc.tc.n > 0
       THEN /\ proc' = [proc EXCEPT !.tc = P("get", 0, @.n)]
            /\ UNCHANGED events
       ELSE IF Triggered("task_production_terminated")
            THEN /\ proc' = [proc EXCEPT !.tc = Done]
                 /\ events' = Succeed(events, "simulation_terminated")
            ELSE /\ proc' = [proc EXCEPT !.tc = P("loop_get", 0, 0)]
                 /\ UNCHANGED events
    /\ actor' = "task_consumer"
    /\ UNCHANGED <<now, cfg, chan, term, hist, schedVars>>

\* task_consumer, the test of the while loop after a consume(): once task
\* production is terminated the consumer triggers simulation_terminated.
TaskConsumerWhile ==
    /\ RMIdle
    /\ proc.tc.pc = "while"
    /\ IF Triggered("task_production_terminated")
       THEN /\ proc' = [proc EXCEPT !.tc = Done]
            /\ events' = Succeed(events, "simulation_terminated")
       ELSE /\ proc' = [proc EXCEPT !.tc = P("loop_get", 0, 0)]
            /\ UNCHANGED events
    /\ actor' = "task_consumer"
    /\ UNCHANGED <<now, cfg, chan, term, hist, schedVars>>

\* task_consumer.consume: an item is taken from new_tasks_queue; a task is
\* passed to scheduler.add_task, LastItem is dropped.
TaskConsume ==
    /\ RMIdle
    /\ proc.tc.pc \in {"get", "loop_get"}
    /\ chan.tasks # <<>>
    /\ IF Head(chan.tasks).kind = "task"
       THEN AddTask(RMTaskSpec, RMPolicy)
       ELSE UNCHANGED schedVars
    /\ chan' = [chan EXCEPT !.tasks = Tail(@)]
    /\ proc' = [proc EXCEPT !.tc = AfterConsume(@)]
    /\ hist' = [hist EXCEPT !.settled = @ /\ pending' = pending]
    /\ actor' = "task_consumer"
    /\ UNCHANGED <<now, cfg, events, term>>

\* The mutant: the clock waits for data_lifetime first.
TaskProductionDelayLifetime == DataLifetime

\* The first timeout of termination_clock.
TaskProductionDelay == BlockArrivalInterval

\* termination_clock: block_production_terminated is observed, the clock
\* sleeps for the first timeout.
TerminationClockObserve ==
    /\ RMIdle
    /\ proc.tclock.pc = "wait"
    /\ Triggered("block_production_terminated")
    /\ proc' = [proc EXCEPT !.tclock = P("sleep1", now + TaskProductionDelay, 0)]
    /\ actor' = "termination_clock"
    /\ UNCHANGED <<now, cfg, chan, events, term, hist, schedVars>>

\* termination_clock after the first timeout: task_production_terminated is
\* triggered unless it is already; the clock sleeps for data_lifetime.
TerminationClockRaise ==
    /\ RMIdle
    /\ proc.tclock.pc = "sleep1"
    /\ Due("tclock")
    /\ events' = SucceedOnce(events, "task_production_terminated")
    /\ proc' = [proc EXCEPT !.tclock = P("sleep2", now + DataLifetime, 0)]
    /\ actor' = "termination_clock"
    /\ UNCHANGED <<now, cfg, chan, term, hist, schedVars>>

\* termination_clock after data_lifetime: it logs and ends.
TerminationClockEnd ==
    /\ RMIdle
    /\ proc.tclock.pc = "sleep2"
    /\ Due("tclock")
    /\ proc' = [proc EXCEPT !.tclock = Done]
    /\ actor' = "termination_clock"
    /\ UNCHANGED <<now, cfg, chan, events, term, hist, schedVars>>

\* daemon_clock: a timeout of 1 as long as the simulation is not terminated.
DaemonClockWake ==
    /\ RMIdle
    /\ Due("dclock")
    /\ proc' = [proc EXCEPT !.dclock =
                    IF Triggered("simulation_terminated")
                    THEN Done ELSE P("sleep", now + 1, 0)]
    /\ actor' = "daemon_clock"
    /\ UNCHANGED <<now, cfg, chan, events, term, hist, schedVars>>

\* The history of rounds: the queue at the start of the last round, the
\* time of that start, and whether the last finished round left the queue as
\* it found it (and no task was added since).
RoundHistory(h) ==
    IF pc' = "idle" THEN [h EXCEPT !.settled = (pending' = h.round_pending)] ELSE h

RoundStarts(h) == RoundHistory([h EXCEPT !.round_pending = pending, !.round_at = now])

\* run_batch_scheduling after its timeout of one period: a scheduling round
\* starts.
SchedulingWake ==
    /\ RMIdle
    /\ Due("sched")
    /\ StartRound
    /\ proc' = [proc EXCEPT !.sched = P("ran", 0, 0)]
    /\ hist' = RoundStarts(hist)
    /\ actor' = "scheduling"
    /\ UNCHANGED <<now, cfg, chan, events, term>>

\* The round goes on: the next task in metric order is considered.
RoundStep ==
    /\ pc = "round"
    /\ ConsiderTask
    /\ hist' = RoundHistory(hist)
    /\ UNCHANGED <<now, cfg, chan, events, proc, actor, term>>

\* run_batch_scheduling after a round: the loop ends when the termination
\* event is triggered, otherwise the coroutine sleeps for one period.
SchedulingLoop ==
    /\ pc = "idle"
    /\ proc.sched.pc = "ran"
    /\ proc' = [proc EXCEPT !.sched =
                    IF Triggered("simulation_terminated")
                    THEN Done ELSE P("sleep", now + cfg.period, 0)]
    /\ actor' = "scheduling"
    /\ UNCHANGED <<now, cfg, chan, events, term, hist, schedVars>>

\* The mutant: schedule_queue is called without the wait for the task
\* consumer.
StartScheduleQueueAtOnce ==
    /\ pc = "idle"
    /\ proc.start.pc = "wait"
    /\ StartRound
    /\ proc' = [proc EXCEPT !.start = P("ran", 0, 0)]
    /\ hist' = RoundStarts(hist)
    /\ actor' = "start"
    /\ UNCHANGED <<now, cfg, chan, events, term>>

\* start, offline: the task consumer has ended, schedule_queue is called.
StartScheduleQueue ==
    /\ pc = "idle"
    /\ proc.start.pc = "wait"
    /\ proc.tc.pc = "done"
    /\ StartRound
    /\ proc' = [proc EXCEPT !.start = P("ran", 0, 0)]
    /\ hist' = RoundStarts(hist)
    /\ actor' = "start"
    /\ UNCHANGED <<now, cfg, chan, events, term>>

\* start, offline: schedule_queue has returned.
StartEnd ==
    /\ pc = "idle"
    /\ proc.start.pc = "ran"
    /\ proc' = [proc EXCEPT !.start = Done]
    /\ actor' = "start"
    /\ UNCHANGED <<now, cfg, chan, events, term, hist, schedVars>>

\* A process is alive: started and not ended.
Alive(p) == proc[p].pc \notin {"off", "done"}

\* terminate_simulation: self.scheduling.interrupt(), then
\* self.daemon_clock.interrupt().  The attribute scheduling is assigned by
\* start in batch mode only (AttributeError otherwise); interrupting a
\* process that has ended raises RuntimeError; an interrupted process gets
\* the exception at its yield and ends.
TerminateSimulation ==
    /\ pc = "idle"
    /\ proc.start.pc \notin {"init", "ran"}
    /\ proc.sched.pc # "ran"
    /\ term = "none"
    /\ IF cfg.method # "batch"
       THEN /\ term' = "AttributeError"
            /\ UNCHANGED proc
       ELSE IF ~Alive("sched")
       THEN /\ term' = "RuntimeError"
            /\ UNCHANGED proc
       ELSE IF ~Alive("dclock")
       THEN /\ term' = "RuntimeError"
            /\ proc' = [proc EXCEPT !.sched = Done]
       ELSE /\ term' = "ok"
            /\ proc' = [proc EXCEPT !.sched = Done, !.dclock = Done]
    /\ actor' = "caller"
    /\ UNCHANGED <<now, cfg, chan, events, hist, schedVars>>

\* A step of a process of the simulation.
ProcessStep ==
    \/ Start
    \/ BlockProducerStart
    \/ BlockProducerWake
    \/ BlockPut
    \/ TaskProducerStart
    \/ TaskProducerWake
    \/ BlockConsumerFor
    \/ BlockConsumerWhile
    \/ BlockConsume
    \/ TaskConsumerFor
    \/ TaskConsumerWhile
    \/ TaskConsume
    \/ TerminationClockObserve
    \/ TerminationClockRaise
    \/ TerminationClockEnd
    \/ DaemonClockWake
    \/ SchedulingWake
    \/ RoundStep
    \/ SchedulingLoop
    \/ StartScheduleQueue
    \/ StartEnd

\* The clock advances to the next time when no step is due and a process
\* sleeps.
Tick ==
    /\ ~ENABLED ProcessStep
    /\ now < MaxTime
    /\ \E p \in ProcNames : proc[p].pc \in {"sleep", "sleep1", "sleep2"}
    /\ now' = now + 1
    /\ actor' = "env"
    /\ UNCHANGED <<cfg, chan, events, proc, term, hist, schedVars>>

NextRM ==
    \/ (Start /\ UNCHANGED <<fnVars, objVars>>)
    \/ (BlockProducerStart /\ UNCHANGED <<fnVars, objVars>>)
    \/ (BlockProducerWake /\ UNCHANGED <<fnVars, objVars>>)
    \/ (BlockPut /\ UNCHANGED <<fnVars, objVars>>)
    \/ (TaskProducerStart /\ UNCHANGED <<fnVars, objVars>>)
    \/ (TaskProducerWake /\ UNCHANGED <<fnVars, objVars>>)
    \/ (BlockConsumerFor /\ UNCHANGED <<fnVars, objVars>>)
    \/ (BlockConsumerWhile /\ UNCHANGED <<fnVars, objVars>>)
    \/ (BlockConsume /\ UNCHANGED <<fnVars, objVars>>)
    \/ (TaskConsumerFor /\ UNCHANGED <<fnVars, objVars>>)
    \/ (TaskConsumerWhile /\ UNCHANGED <<fnVars, objVars>>)
    \/ (TaskConsume /\ UNCHANGED <<fnVars, objVars>>)
    \/ (TerminationClockObserve /\ UNCHANGED <<fnVars, objVars>>)
    \/ (TerminationClockRaise /\ UNCHANGED <<fnVars, objVars>>)
    \/ (TerminationClockEnd /\ UNCHANGED <<fnVars, objVars>>)
    \/ (DaemonClockWake /\ UNCHANGED <<fnVars, objVars>>)
    \/ (SchedulingWake /\ UNCHANGED <<fnVars, objVars>>)
    \/ (RoundStep /\ UNCHANGED <<fnVars, objVars>>)
    \/ (SchedulingLoop /\ UNCHANGED <<fnVars, objVars>>)
    \/ (StartScheduleQueue /\ UNCHANGED <<fnVars, objVars>>)
    \/ (StartEnd /\ UNCHANGED <<fnVars, objVars>>)
    \/ (TerminateSimulation /\ UNCHANGED <<fnVars, objVars>>)
    \/ (Tick /\ UNCHANGED <<fnVars, objVars>>)

SpecRM == InitRM /\ [][NextRM]_vars

\* The simulation under fair scheduling: the environment runs every step
\* that is due and advances the clock when none is; terminate_simulation is
\* a call from outside and need not happen.
SpecRMFair ==
    /\ InitRM
    /\ [][NextRM]_vars
    /\ WF_vars(ProcessStep /\ UNCHANGED <<fnVars, objVars>>)
    /\ WF_vars(Tick /\ UNCHANGED <<fnVars, objVars>>)

---------------------------------------------------------------------------
(* Properties *)

AllocatedIds == {allocation[i].id : i \in 1..Len(allocation)}

PendingIds == {pending[i].id : i \in 1..Len(pending)}

\* What an allocated task demanded on a block at an order.
DemandOn(task, b, alpha) ==
    IF b \in Range(task.block_ids) /\ alpha \in DOMAIN task.budget
    THEN task.budget[alpha] ELSE 0

RECURSIVE AllocatedDemand(_, _, _)
AllocatedDemand(i, b, alpha) ==
    IF i = 0 THEN 0
    ELSE DemandOn(allocation[i], b, alpha) + AllocatedDemand(i - 1, b, alpha)

\* C1: capacity conservation.  In every reachable state, for every block and
\* every order, the remaining budget plus the demands of the tasks allocated
\* on the block equals the initial budget.
C1_CapacityConservation ==
    \A b \in DOMAIN blocks :
        /\ DOMAIN blocks[b].budget = DOMAIN blocks[b].initial_budget
        /\ \A alpha \in DOMAIN blocks[b].initial_budget :
              blocks[b].budget[alpha] + AllocatedDemand(Len(allocation), b, alpha)
                  = blocks[b].initial_budget[alpha]

\* Two tasks are allocated on one block, whose budget went below zero at an order.
C1_Witness ==
    \E b \in DOMAIN blocks :
        /\ blocks[b].n_allocated_tasks >= 2
        /\ \E alpha \in DOMAIN blocks[b].budget : blocks[b].budget[alpha] < 0

\* C2: feasibility of commits.  A step that commits a task starts in a state
\* where the task's demand is non-negative and every block of the task has an
\* order whose remaining epsilon covers the demand: all blocks are tested
\* before any is debited.
C2_FeasibleCommits ==
    [][Len(allocation') > Len(allocation) =>
        LET task == allocation'[Len(allocation')]
        IN  /\ \A alpha \in DOMAIN task.budget : task.budget[alpha] >= 0
            /\ \A b \in Range(task.block_ids) :
                  /\ b \in DOMAIN blocks
                  /\ \E alpha \in DOMAIN blocks[b].budget \cap DOMAIN task.budget :
                        blocks[b].budget[alpha] >= task.budget[alpha]]_vars

\* A task over two blocks is committed, and a round has left a task pending.
C2_Witness ==
    /\ \E i \in 1..Len(allocation) : Len(allocation[i].block_ids) = 2
    /\ pending # <<>>
    /\ pc = "idle"
    /\ last.op = "schedule"

UnlockCap(block, alpha) ==
    (block.initial_budget[alpha] * block.unlock_steps) \div UnlockN

C5_NoDoubleAllocation ==
    /\ [](/\ \A i, j \in 1..Len(allocation) :
                i # j => allocation[i].id # allocation[j].id
          /\ \A i, j \in 1..Len(pending) : i # j => pending[i].id # pending[j].id
          /\ AllocatedIds \cap PendingIds = {})
    /\ [][/\ Len(allocation') >= Len(allocation)
          /\ SubSeq(allocation', 1, Len(allocation)) = allocation
          /\ \A id \in PendingIds \ {pending'[i].id : i \in 1..Len(pending')} :
                /\ id \notin AllocatedIds
                /\ allocation' = Append(allocation, PendingTask(id))]_vars

\* After at least two rounds, one task is in the record and one still pending.
C5_Witness ==
    /\ Len(allocation) = 1
    /\ Len(pending) = 1
    /\ pc = "idle"
    /\ last.op = "schedule"
    /\ \E b \in DOMAIN blocks : blocks[b].unlock_steps = UnlockN

IsZeroDemand(task) == \A alpha \in DOMAIN task.budget : task.budget[alpha] = 0

\* C7, as stated: a task whose demand is zero at every order is never allocated.
C7_Original ==
    \A i \in 1..Len(allocation) : ~IsZeroDemand(allocation[i])

\* C7, amended: the positivity requirement only excludes negative epsilons;
\* an all-zero demand passes it, and can_allocate accepts it on every block
\* whose remaining budget is >= 0 at some order.  Every block keeps such an
\* order, so a task with an all-zero demand is committed when a round
\* considers it.
C7_ZeroDemandAllocated ==
    /\ [](\A b \in DOMAIN blocks :
            \E alpha \in DOMAIN blocks[b].budget : blocks[b].budget[alpha] >= 0)
    /\ [][(/\ pc = "round"
           /\ order # <<>>
           /\ order' = Tail(order)
           /\ IsZeroDemand(PendingTask(Head(order))))
          => /\ allocation' = Append(allocation, PendingTask(Head(order)))
             /\ Head(order) \notin {pending'[i].id : i \in 1..Len(pending')}]_vars

\* An all-zero task is committed on a block that a task has used up, in the
\* same round.
C7_Witness ==
    /\ Len(allocation) = 2
    /\ ~IsZeroDemand(allocation[1])
    /\ IsZeroDemand(allocation[2])
    /\ allocation[2].block_ids = allocation[1].block_ids
    /\ \E b \in Range(allocation[2].block_ids) :
          /\ blocks[b].unlock_steps = 1
          /\ \E alpha \in DOMAIN blocks[b].budget : blocks[b].budget[alpha] < 0

\* C8: for every policy, every n, every k with 1 <= k <= n and every random
\* outcome, select_blocks returns k pairwise distinct indices in 0..n-1.
C8_SelectBlocks ==
    (fn_op = "select_blocks" /\ 1 <= fn_args[3] /\ fn_args[3] <= fn_args[2]) =>
        /\ fn_ret.err = "none"
        /\ Len(fn_ret.blocks) = fn_args[3]
        /\ \A i, j \in 1..Len(fn_ret.blocks) :
              i # j => fn_ret.blocks[i] # fn_ret.blocks[j]
        /\ \A i \in 1..Len(fn_ret.blocks) :
              0 <= fn_ret.blocks[i] /\ fn_ret.blocks[i] < fn_args[2]

\* The biased branch: the two even blocks of three, then the odd one.
C8_Witness ==
    /\ fn_op = "select_blocks"
    /\ fn_args[1].name = "BiasedRandomBlocks"
    /\ fn_args[2] = 3
    /\ fn_args[3] = 3
    /\ fn_ret.blocks = <<0, 2, 1>>

\* C9: an add_task that requests more blocks than are registered ends with
\* NotEnoughBlocks, whatever the policy; the task is counted as dropped and
\* is not pending, no block and no other task is touched, and the scheduler
\* stays ready for the next add_task and the next round.
C9_NotEnoughBlocks ==
    /\ []((last.op = "add_task" /\ last.n_blocks > last.n_registered)
            => /\ last.outcome = "NotEnoughBlocks"
               /\ pc = "idle"
               /\ ENABLED StartRound
               /\ (task_count < MaxTasks =>
                     \A spec \in TaskSpecs, policy \in TaskPolicies :
                        ENABLED AddTask(spec, policy)))
    /\ [][(task_count' = task_count + 1 /\ last'.n_blocks > last'.n_registered)
            => /\ n_dropped' = n_dropped + 1
               /\ pending' = pending
               /\ blocks' = blocks
               /\ allocation' = allocation
               /\ allocated_count' = allocated_count
               /\ task_count' - 1 \notin {pending'[i].id : i \in 1..Len(pending')}]_vars

\* A task asks for two blocks when one is registered, and more tasks may come.
C9_Witness ==
    /\ last.op = "add_task"
    /\ last.policy.name = "Zeta"
    /\ last.n_blocks = 2
    /\ last.n_registered = 1
    /\ last.outcome = "NotEnoughBlocks"
    /\ n_dropped = 1
    /\ pending = <<>>
    /\ task_count < MaxTasks

\* C10: LatestBlocksFirst with 1 <= k <= n returns n-1, n-2, ..., n-k in this
\* order, and the task's budget_per_block keeps this order.
C10_LatestBlocksFirst ==
    (/\ fn_op = "select_blocks"
     /\ fn_args[1].name = "LatestBlocksFirst"
     /\ 1 <= fn_args[3]
     /\ fn_args[3] <= fn_args[2]) =>
        /\ fn_ret.err = "none"
        /\ fn_ret.blocks = [i \in 1..fn_args[3] |-> fn_args[2] - i]
        /\ fn_ret.keys = fn_ret.blocks

C10_Witness ==
    /\ fn_op = "select_blocks"
    /\ fn_args[1].name = "LatestBlocksFirst"
    /\ fn_args[2] = 4
    /\ fn_args[3] = 3
    /\ fn_ret.keys = <<3, 2, 1>>


\* The operands of a call, each reduced to the orders all of them have.
ReducedArgs ==
    LET shared == {alpha \in ALPHAS : \A i \in 1..Len(fn_args) : alpha \in DOMAIN fn_args[i]}
    IN  [i \in 1..Len(fn_args) |-> [alpha \in shared |-> fn_args[i][alpha]]]

\* C11: support reduction.  Every pairwise operation (+, -, normalize_by,
\* add_with_threshold, equality, can_allocate) on operands of different
\* supports works on the operands reduced to their common orders, each with
\* its original epsilon: it reads no order that an operand lacks (no
\* KeyError), and its result is the one it gives on the reduced operands.
C11_SupportReduction ==
    /\ fn_op \in PairwiseOps =>
          /\ fn_ret.err # "KeyError"
          /\ fn_ret = Pairwise(fn_op, ReducedArgs[1], ReducedArgs[2])
    /\ fn_op = "can_allocate" =>
          /\ fn_ret # "KeyError"
          /\ IsPositiveAllAlphas(fn_args[2]) =>
                fn_ret = CanAllocate(ReducedArgs[1], ReducedArgs[2])
    /\ fn_op = "add_with_threshold" =>
          /\ fn_ret.err # "KeyError"
          /\ fn_ret = AddWithThreshold(ReducedArgs[1], ReducedArgs[2], ReducedArgs[3])


\* C12, as stated: no operation on Budget values, dp_budget included,
\* changes the state of an operand object.
C12_Original == [][objs' = objs]_vars

\* C12: purity.  No operation changes the orders of an operand; the only
\* attribute an operation assigns is dp_budget_cached, which dp_budget sets at
\* its first call on the object (to the triple it returns) and which no call
\* changes afterwards.
C12_PureButCache ==
    [][\A i \in DOMAIN objs :
        /\ objs'[i].orders = objs[i].orders
        /\ objs'[i] # objs[i] =>
              /\ fn_op' = "dp_budget" /\ fn_args'[1] = i
              /\ objs[i].dp_budget_cached = <<>>
              /\ objs'[i].dp_budget_cached = <<fn_ret'.value>>]_vars

\* Both objects carry a cache, and the last call was an arithmetic one.
C12_Witness ==
    /\ fn_op \in PairwiseOps
    /\ \A i \in DOMAIN objs : objs[i].dp_budget_cached # <<>>
    /\ DOMAIN objs # {}

\* C13: dp_budget is idempotent.  Every call of dp_budget on an object
\* returns the triple the first call on that object returned, and the
\* conversion is computed at most once per object.
C13_DpBudgetIdempotent ==
    /\ \A i \in DOMAIN objs : n_conversions[i] <= 1
    /\ fn_op = "dp_budget" =>
          /\ first_dp[fn_args[1]] = <<fn_ret>>
          /\ n_conversions[fn_args[1]] = 1

\* A call with another delta than the one the cached triple was computed
\* for.
C13_Witness ==
    /\ fn_op = "dp_budget"
    /\ fn_ret.value.delta # fn_args[2]

\* The channels hold no block and no task put at or before the present time.
NoArrivalWaiting ==
    \A q \in {chan.blocks, chan.tasks} : \A i \in 1..Len(q) :
        q[i].kind = "LastItem" \/ q[i].t > now

\* C14: the termination condition.  A step that triggers
\* simulation_terminated ends in a state where block production and task
\* production are terminated and the pending queue is empty or was left
\* unchanged by the last full scheduling round.
C14_TerminationCondition ==
    [][(~Triggered("simulation_terminated") /\ Triggered("simulation_terminated")') =>
        /\ Triggered("block_production_terminated")'
        /\ Triggered("task_production_terminated")'
        /\ (pending' = <<>> \/ hist'.settled)]_vars

\* C15, as stated: in batch mode task_production_terminated is not triggered
\* earlier than data_lifetime after block_production_terminated.
C15_Original ==
    (cfg.method = "batch" /\ Triggered("task_production_terminated")) =>
        /\ Triggered("block_production_terminated")
        /\ events["task_production_terminated"]
              >= events["block_production_terminated"] + DataLifetime

\* C15: the termination clock.  In batch mode task_production_terminated is
\* triggered exactly one block-arrival interval after
\* block_production_terminated, and the termination clock ends no earlier
\* than data_lifetime after task_production_terminated.
C15_TerminationClock ==
    cfg.method = "batch" =>
        /\ Triggered("task_production_terminated") =>
              /\ Triggered("block_production_terminated")
              /\ events["task_production_terminated"]
                    = events["block_production_terminated"] + BlockArrivalInterval
        /\ proc.tclock.pc = "sleep2" =>
              /\ Triggered("task_production_terminated")
              /\ proc.tclock.wake = events["task_production_terminated"] + DataLifetime
        /\ proc.tclock.pc = "done" =>
              /\ Triggered("task_production_terminated")
              /\ now >= events["task_production_terminated"] + DataLifetime

\* The termination clock has ended, with blocks that arrived after time 0.
C15_Witness ==
    /\ cfg.method = "batch"
    /\ proc.tclock.pc = "done"
    /\ events["block_production_terminated"] > 0

\* C16: terminate_simulation.  Called in any state of a started resource
\* manager, it raises nothing and leaves the scheduling coroutine and the
\* daemon clock ended; afterwards no task is committed and no block is
\* debited.
C16_TerminateClean ==
    /\ [](term \in {"none", "ok"})
    /\ [](term = "ok" => (~Alive("sched") /\ ~Alive("dclock")))
    /\ [][term # "none" =>
            /\ allocation' = allocation
            /\ \A b \in DOMAIN blocks : blocks'[b].budget = blocks[b].budget]_vars

RoundActors == {"scheduling", "start"}

\* C18, as stated: the block map and the pending queue are changed by steps
\* of the scheduler only.
C18_Original ==
    [][(blocks' # blocks \/ pending' # pending) => actor' \in RoundActors]_vars

\* C18: shared state.  The block map and the pending queue are changed by
\* the scheduling rounds and by the two channel consumers only: the block
\* consumer registers one new block and changes no other, the task consumer
\* appends one task to the pending queue.  A producer changes its own
\* channel only, and no clock changes a channel, a block or the queue.
C18_SharedState ==
    [][/\ (blocks' # blocks \/ pending' # pending) =>
            actor' \in RoundActors \cup {"block_consumer", "task_consumer"}
       /\ actor' = "block_consumer" =>
            /\ pending' = pending
            /\ \A b \in DOMAIN blocks : b \in DOMAIN blocks' /\ blocks'[b] = blocks[b]
            /\ Cardinality(DOMAIN blocks') <= Cardinality(DOMAIN blocks) + 1
       /\ actor' = "task_consumer" =>
            /\ blocks' = blocks
            /\ pending' = pending \/ SubSeq(pending', 1, Len(pending)) = pending
       /\ actor' = "block_producer" => chan'.tasks = chan.tasks
       /\ actor' = "task_producer" => chan'.blocks = chan.blocks
       /\ actor' \in {"daemon_clock", "termination_clock", "env"} => chan' = chan]_vars

\* Both consumers have changed the scheduler's state, and a round has
\* committed a task.
C18_Witness ==
    /\ cfg.method = "batch"
    /\ allocation # <<>>
    /\ pending # <<>>
    /\ actor = "task_consumer"
    /\ Cardinality(DOMAIN blocks) = cfg.max_blocks

\* Two ranks are equal: neither is below the other.
SameRank(t, u) == ~RanksBelow(Rank(t), Rank(u)) /\ ~RanksBelow(Rank(u), Rank(t))

\* C19: the order of a round.  A round ranks every pending task; the task
\* considered next ranks no lower than every task still to consider, and has
\* the lower id when the ranks are equal; a considered task that some block
\* cannot allocate is skipped: no block is debited, nothing is recorded, the
\* task stays pending; and a task leaves the pending queue only by being
\* committed, so a skipped task is pending when the next round starts.
C19_RoundOrder ==
    [][/\ (pc = "idle" /\ pc' = "round") =>
            /\ Range(order') = PendingIds
            /\ Len(order') = Len(pending)
       /\ pc = "round" =>
            LET task == PendingTask(Head(order))
            IN  /\ \A i \in 2..Len(order) :
                      LET u == PendingTask(order[i])
                      IN  /\ ~RanksBelow(Rank(task), Rank(u))
                          /\ SameRank(task, u) => task.id < u.id
                /\ ~CanRun(task) =>
                      /\ blocks' = blocks
                      /\ pending' = pending
                      /\ allocation' = allocation
                      /\ allocated_count' = allocated_count
       /\ \A i \in 1..Len(pending) :
            pending[i] \notin Range(pending') =>
                /\ Len(allocation') = Len(allocation) + 1
                /\ allocation'[Len(allocation')] = pending[i]]_vars

\* In a round, after a task was committed, the next task has the rank of the
\* committed one, a higher id, and cannot run.
C19_Witness ==
    /\ pc = "round"
    /\ allocation # <<>>
    /\ LET task == PendingTask(Head(order))
           done == allocation[Len(allocation)]
       IN  /\ SameRank(task, done)
           /\ Rank(task).err = "none"
           /\ done.id < task.id
           /\ ~CanRun(task)

\* A round starts: the step from "idle" that ranks the queue.
RoundStart == pc = "idle" /\ last' = [op |-> "schedule"]

C30_DeltaRespected ==
    fn_op = "dp_budget" =>
        LET conversion == GetPrivacySpent(objs[fn_args[1]].orders, fn_args[2])
        IN  /\ fn_ret.value.delta = fn_args[2]
            /\ fn_ret.value.epsilon = conversion[1]
            /\ fn_ret.value.best_alpha = conversion[2]

\* The largest number of demands whose sum is at most the capacity, over
\* all subsets of the demands.
BruteForceKnapsack(capacity, task_demands) ==
    SetMax({Cardinality(S) : S \in {T \in SUBSET DOMAIN task_demands :
                                       SumOver(T, task_demands) <= capacity}})

\* C27: solve_local_knapsack_no_profits returns 0 when capacity <= 0, and
\* for a positive capacity and non-negative demands the largest number of
\* tasks in a subset whose demands sum to at most the capacity.
C27_KnapsackOptimum ==
    fn_op = "solve_local_knapsack_no_profits" =>
        LET capacity == fn_args[1]
        IN  fn_ret = IF ~GreaterThanZero(capacity) THEN 0
                     ELSE BruteForceKnapsack(capacity.value, fn_args[2])

\* A positive capacity that holds some of the demands and not all, the
\* demands not given in ascending order.
C27_Witness ==
    /\ fn_op = "solve_local_knapsack_no_profits"
    /\ GreaterThanZero(fn_args[1])
    /\ 0 < fn_ret /\ fn_ret < Len(fn_args[2])
    /\ fn_args[2][1] > fn_args[2][Len(fn_args[2])]

RECURSIVE FracSum(_, _)
FracSum(S, f) ==
    IF S = {} THEN <<0, 1>>
    ELSE LET x == CHOOSE y \in S : TRUE IN FracAdd(f[x], FracSum(S \ {x}, f))

\* overflow(b, alpha) of a metric call: the pending demands on the order
\* minus the block's initial budget (OverflowRelevance) or minus its
\* available unlocked budget, +infinity when the block has none of it
\* (BatchOverflowRelevance).
OverflowOf(op, registered, tasks, b, alpha) ==
    LET demanding == {i \in 1..Len(tasks) : b \in Range(tasks[i].block_ids)}
        sum == SumOver(demanding, [i \in demanding |-> tasks[i].budget[alpha]])
        baseline == IF op = "OverflowRelevance"
                    THEN registered[b].initial_budget[alpha]
                    ELSE registered[b].available_unlocked_budget[alpha]
    IN  IF op = "BatchOverflowRelevance" /\ baseline <= 0 THEN PosInfinity
        ELSE Finite(sum - baseline)

\* What a block contributes to the cost of a task.
Contribution(op, task, registered, tasks, b) ==
    IF \E alpha \in DOMAIN task.budget :
          ~GreaterThanZero(OverflowOf(op, registered, tasks, b, alpha))
    THEN <<0, 1>>
    ELSE FracSum(DOMAIN task.budget,
                 [alpha \in DOMAIN task.budget |->
                     Quotient(task.budget[alpha],
                              OverflowOf(op, registered, tasks, b, alpha))])

\* C23: the cost and rank of OverflowRelevance and BatchOverflowRelevance.
\* Whenever the metric returns a rank: a block of the task with an alpha of
\* overflow <= 0 contributes 0 to the cost, wherever that alpha stands, any
\* other block contributes the sum over the alphas of demand / overflow;
\* the rank is profit / total_cost, and +infinity when total_cost <= 0.
C23_OverflowCost ==
    (fn_op \in {"OverflowRelevance", "BatchOverflowRelevance"} /\ fn_ret.err = "none") =>
        LET task == fn_args[1]
            ids == Range(task.block_ids)
            total_cost == FracSum(ids, [b \in ids |->
                              Contribution(fn_op, task, fn_args[2], fn_args[3], b)])
        IN  /\ FracEq(fn_ret.value.cost, total_cost)
            /\ IF total_cost[1] <= 0
               THEN fn_ret.value.rank = PosInfinity
               ELSE /\ fn_ret.value.rank.inf = 0
                    /\ FracEq(fn_ret.value.rank.value, <<task.profit * total_cost[2], total_cost[1]>>)

\* BatchOverflowRelevance on a task of two blocks: on one the last alpha has
\* overflow <= 0 after alphas with demand and positive overflow, the other
\* has positive overflow everywhere and contributes a positive cost.
C23_Witness ==
    /\ fn_op = "BatchOverflowRelevance"
    /\ fn_ret.err = "none"
    /\ fn_ret.value.rank.inf = 0
    /\ LET task == fn_args[1]
           overflow == fn_args[4][1]
       IN  /\ \E b \in Range(task.block_ids) :
                 /\ ~GreaterThanZero(overflow[b][5])
                 /\ GreaterThanZero(overflow[b][3]) /\ overflow[b][3].inf = 0
                 /\ task.budget[3] > 0
           /\ \E b \in Range(task.block_ids) : \A alpha \in DOMAIN task.budget :
                 GreaterThanZero(overflow[b][alpha])

\* C24: sample_n_blocks_and_profit is idempotent.  After a call n_blocks
\* and profit are concrete values (no str); the first call draws one sample
\* per attribute that was a str, and every later call leaves the task
\* unchanged and draws no sample.
C24_SampleOnce ==
    [][fn_op' = "sample_n_blocks_and_profit" =>
        /\ ~IsStr(objs'[1].n_blocks)
        /\ ~IsStr(objs'[1].profit)
        /\ objs'[1].n_blocks.type = "int"
        /\ n_samples' = n_samples + Cardinality({x \in {"n_blocks", "profit"} : IsStr(objs[1][x])})
        /\ fn_op = "sample_n_blocks_and_profit" =>
              /\ objs' = objs
              /\ n_samples' = n_samples]_vars

\* A later call on a task whose n_blocks and profit were both distributions
\* and whose n_blocks sample was cut by int().
C24_Witness ==
    /\ fn_op = "sample_n_blocks_and_profit"
    /\ fn_args[1] >= 2
    /\ n_samples = 2
    /\ objs[1].n_blocks = PyInt(1)


C28_BlockIds ==
    /\ DOMAIN blocks = 0..(Cardinality(DOMAIN blocks) - 1)
    /\ \A i \in DOMAIN pending : Range(pending[i].block_ids) \subseteq DOMAIN blocks

\* All blocks are registered, the initial block and a later one at the same
\* time, and a task is pending.
C28_Witness ==
    /\ cfg.method = "batch"
    /\ cfg.initial_blocks < cfg.max_blocks
    /\ Cardinality(DOMAIN blocks) = cfg.max_blocks
    /\ events[GeneratedBlockEvent(0)] = events[GeneratedBlockEvent(cfg.max_blocks - 1)]
    /\ pending # <<>>

RoundStarting ==
    \/ (proc.start.pc # "ran" /\ proc'.start.pc = "ran")
    \/ (proc.sched.pc # "ran" /\ proc'.sched.pc = "ran")

\* C26: the offline pass.  In offline mode a scheduling pass is started by
\* start only, once, after the task consumer has ended: every initial task
\* has been taken from the channel and passed to add_task, and the pass
\* ranges over the whole pending queue.  When start has ended the pass has
\* happened.
C26_OfflineSinglePass ==
    /\ [][(cfg.method = "offline" /\ RoundStarting) =>
            /\ actor' = "start"
            /\ proc.tc.pc = "done"
            /\ hist.round_at < 0
            /\ task_count = InitialTasksNum
            /\ \A i \in DOMAIN chan.tasks : chan.tasks[i].kind # "task"
            /\ hist'.round_pending = pending
            /\ {order'[i] : i \in DOMAIN order'} = {t.id : t \in Range(pending)}]_vars
    /\ [][(cfg.method = "offline" /\ pc = "round") => actor' = "start"]_vars
    /\ []((cfg.method = "offline" /\ proc.start.pc = "done") => hist.round_at >= 0)

\* Offline: start has ended and its pass has committed the initial task.
C26_Witness ==
    /\ cfg.method = "offline"
    /\ proc.start.pc = "done"
    /\ task_count = InitialTasksNum
    /\ allocation # <<>>
    /\ pending = <<>>


\* C25: termination in batch mode.  Under fair scheduling, once the block
\* producer has ended and task production is terminated,
\* simulation_terminated is eventually triggered; a task consumer that waits
\* for an item after task_production_terminated was triggered eventually
\* ends.
C25_EventuallyTerminated ==
    /\ (cfg.method = "batch" /\ proc.bp.pc = "done")
          ~> Triggered("simulation_terminated")
    /\ (cfg.method = "batch" /\ Triggered("task_production_terminated")
            /\ proc.tc.pc \in {"get", "loop_get"})
          ~> (proc.tc.pc = "done" /\ Triggered("simulation_terminated"))

\* Batch: task production is terminated, the block producer has ended, and
\* the task consumer waits for an item of an empty channel.
C25_Witness ==
    /\ cfg.method = "batch"
    /\ proc.bp.pc = "done"
    /\ Triggered("task_production_terminated")
    /\ proc.tc.pc = "loop_get"
    /\ chan.tasks = <<>>

=============================================================================
